---------------------------- MODULE Spec2Model ----------------------------
(* A model of x11rb-async's RustConnection                                  *)
(* (src/x11rb-async/src/rust_connection/mod.rs): the write pipeline, the    *)
(* request dispatcher, the big-request encoder, the maximum-request-size    *)
(* negotiation, the extension cache and the resource-id allocation, run by  *)
(* concurrently live tasks that interleave at their suspension points.      *)
EXTENDS Integers, Sequences, FiniteSets, TLC

VARIABLES
    write_buffer,       \* WriteBufferInner and the owner of its mutex
    wire,               \* every byte the transport stream has accepted, in order
    proto,              \* the Protocol Core (x11rb_protocol Connection)
    sent,               \* history: the request issued under each sequence number
    max_request_bytes,  \* MaxRequestBytes and the owner of its mutex
    extensions,         \* the extension cache and the owner of its write lock
    id_allocator,       \* IdAllocator and the owner of its mutex
    server,             \* what the server has answered so far (fixed on first answer)
    stack,              \* per task: the call stack of async frames, innermost first
    ret,                \* per task: the value the last returned call produced
    result,             \* per task: the outcome of its last finished public call
    ghost,              \* history counters the properties read
    setup,              \* the Setup the handshake produced
    env,                \* the workload chosen at start and the budgets that bound a run
    handshake           \* connect_to_stream_with_auth_info: its position and locals

vars == << write_buffer, wire, proto, sent, max_request_bytes, extensions,
           id_allocator, server, stack, ret, result, ghost, setup, env, handshake >>

-----------------------------------------------------------------------------
(* Byte strings.  A byte string is held run-length encoded, a sequence of   *)
(* <<byte, count>> runs in normal form (count >= 1, neighbouring runs of    *)
(* different bytes), so that two byte strings are equal exactly when their  *)
(* encodings are, and requests of 16384 or 262144 bytes stay small values.  *)

Run(b, n) == IF n = 0 THEN << >> ELSE << <<b, n>> >>

BCat(a, b) ==
    IF a = << >> THEN b
    ELSE IF b = << >> THEN a
    ELSE IF a[Len(a)][1] = b[1][1]
         THEN SubSeq(a, 1, Len(a) - 1)
              \o << <<b[1][1], a[Len(a)][2] + b[1][2]>> >>
              \o Tail(b)
         ELSE a \o b

RECURSIVE BLen(_)
BLen(b) == IF b = << >> THEN 0 ELSE b[1][2] + BLen(Tail(b))

RECURSIVE BTake(_, _)
BTake(b, n) ==
    IF n <= 0 \/ b = << >> THEN << >>
    ELSE IF b[1][2] <= n THEN <<b[1]>> \o BTake(Tail(b), n - b[1][2])
    ELSE << <<b[1][1], n>> >>

RECURSIVE BDrop(_, _)
BDrop(b, n) ==
    IF n <= 0 THEN b
    ELSE IF b = << >> THEN "range start index out of range"    \* the slice panics
    ELSE IF b[1][2] <= n THEN BDrop(Tail(b), n - b[1][2])
    ELSE << <<b[1][1], b[1][2] - n>> >> \o Tail(b)

\* the byte at 0-based index i
BAt(b, i) == BDrop(b, i)[1][1]

RECURSIVE BLit(_)
BLit(s) == IF s = << >> THEN << >> ELSE BCat(Run(s[1], 1), BLit(Tail(s)))

\* a list of slices (io::IoSlice) flattened to the bytes it denotes
RECURSIVE Flat(_)
Flat(bufs) == IF bufs = << >> THEN << >> ELSE BCat(bufs[1], Flat(Tail(bufs)))

RECURSIVE TotalLen(_)
TotalLen(bufs) == IF bufs = << >> THEN 0 ELSE BLen(bufs[1]) + TotalLen(Tail(bufs))

\* to_ne_bytes / from_ne_bytes on the little-endian targets the crate is built for
U16Bytes(x) == << x % 256, (x \div 256) % 256 >>
U32Bytes(x) == << x % 256, (x \div 256) % 256, (x \div 65536) % 256,
                  (x \div 16777216) % 256 >>
U16From(lo, hi) == lo + 256 * hi
U32From(b) == b[1] + 256 * b[2] + 65536 * b[3] + 16777216 * b[4]

-----------------------------------------------------------------------------
(* Program constants.                                                       *)

Capacity == 16384           \* Vec::with_capacity(16384)
U16Max == 65535             \* u16::try_from(wire_length)
GET_INPUT_FOCUS_REQUEST == 43


-----------------------------------------------------------------------------
(* Bounds of the model.                                                     *)

MaxCalls == 2       \* public calls started in one run
MaxFaults == 1      \* transport faults and dropped futures in one run
SeqWindow == 2      \* the Protocol Core's window of reply-less requests

Tasks == {1, 2}

-----------------------------------------------------------------------------
(* Results.  Every call returns a record of one shape.                      *)

Ok(v) == [tag |-> "Ok", err |-> "", val |-> v, val2 |-> 0]
Ok2(v, w) == [tag |-> "Ok", err |-> "", val |-> v, val2 |-> w]
Err(e) == [tag |-> "Err", err |-> e, val |-> 0, val2 |-> 0]
NoRet == [tag |-> "", err |-> "", val |-> 0, val2 |-> 0]

-----------------------------------------------------------------------------
(* The big-request encoder.                                                 *)

\* compute_length_field takes the small-request exit without asking for the maximum
NeedsBigRequest(request_buffers) == TotalLen(request_buffers) \div 4 > U16Max

\* the new slices.  The extended length is the word count + 1 as a u32: a value
\* of 2^32 or more fails try_into() and panics in expect().  Then first_buf[0],
\* first_buf[1] and &first_buf[4..] panic on a first slice of fewer than 4 bytes.
BigRequestBuffers(request_buffers) ==
    LET first_buf == request_buffers[1]
        wire_length == (TotalLen(request_buffers) \div 4) + 1
    IN  IF wire_length \div 65536 >= 65536
        THEN [tag |-> "Panic", err |-> "X11 request larger than 2^34 bytes?!?",
              bufs |-> << >>]
        ELSE IF BLen(first_buf) < 4
        THEN [tag |-> "Panic", err |-> "index out of range", bufs |-> << >>]
        ELSE [tag |-> "Ok", err |-> "",
              bufs |-> << BLit(<< BAt(first_buf, 0), BAt(first_buf, 1), 0, 0 >>
                                \o U32Bytes(wire_length)),
                          BDrop(first_buf, 4) >> \o Tail(request_buffers)]

compute_length_field_Unlimited(request_buffers, max) ==
    LET length == TotalLen(request_buffers)
    IN  IF length % 4 # 0 THEN [tag |-> "Panic", err |-> "length", bufs |-> << >>]
        ELSE IF length \div 4 <= U16Max
        THEN [tag |-> "Ok", err |-> "", bufs |-> request_buffers]
        ELSE BigRequestBuffers(request_buffers)

\* max is conn.maximum_request_bytes(), read only on the big-request path
compute_length_field(request_buffers, max) ==
    LET length == TotalLen(request_buffers)
        wire_length == length \div 4
    IN  IF length % 4 # 0 THEN [tag |-> "Panic", err |-> "length", bufs |-> << >>]
        ELSE IF request_buffers = << >>
        THEN [tag |-> "Panic", err |-> "index out of range", bufs |-> << >>]
        ELSE IF wire_length <= U16Max
        THEN IF BLen(request_buffers[1]) < 4
             THEN [tag |-> "Panic", err |-> "index out of range", bufs |-> << >>]
             ELSE IF U16From(BAt(request_buffers[1], 2), BAt(request_buffers[1], 3))
                     # wire_length
             THEN [tag |-> "Panic", err |-> "length field", bufs |-> << >>]
             ELSE [tag |-> "Ok", err |-> "", bufs |-> request_buffers]
        ELSE IF length > max
        THEN [tag |-> "Err", err |-> "MaximumRequestLengthExceeded", bufs |-> << >>]
        ELSE BigRequestBuffers(request_buffers)

-----------------------------------------------------------------------------
(* The Protocol Core (x11rb_protocol::connection::Connection).              *)

\* send_request(kind): None is the refusal that asks for a synchronizing request
ProtoRefuses(p, kind) ==
    kind = "NoReply" /\ p.next_reply_expected + SeqWindow - 1 <= p.last_sequence_written

ProtoSendRequest(p, kind) ==
    LET seqno == p.last_sequence_written + 1
    IN  [p EXCEPT !.last_sequence_written = seqno,
                  !.next_reply_expected = IF kind = "NoReply" THEN @ ELSE seqno]

ProtoDiscardReply(p, seq) ==
    [p EXCEPT !.discarded = @ \cup {seq},
              !.replies = {r \in @ : r.seq # seq}]

\* prepare_check_for_reply_or_error: true when a synchronizing request is needed
\* before the absence of an error for seq can be known
PrepareCheck(p, seq) == p.next_reply_expected < seq

HasReply(p, seq) == \E r \in p.replies : r.seq = seq
ReplyOf(p, seq) == CHOOSE r \in p.replies : r.seq = seq
ProtoTakeReply(p, seq) == [p EXCEPT !.replies = {r \in @ : r.seq # seq}]

-----------------------------------------------------------------------------
(* Tasks and their async call stacks.  A frame is one async fn in progress: *)
(* its position (pc) and its locals.  stack[t][1] is the innermost frame.   *)

Frame(fn, pc) ==
    [fn |-> fn, pc |-> pc, bufs |-> << >>, fds |-> 0, kind |-> "", what |-> "",
     seq |-> 0, pos |-> 0, partial |-> << >>, total |-> 0, name |-> "", c0 |-> FALSE,
     s0 |-> 0]

Top(t) == stack[t][1]

\* the places where a future returns Pending: there another task may be polled,
\* and there the caller may drop the future
SuspendPcs == {"lock", "writable", "direct_wait", "wait"}

\* Scheduling is cooperative: a task that is polled runs until it reaches a
\* suspension point (or finishes), and only then is another task or the
\* Background Reader polled.
Running(t) == stack[t] # << >> /\ Top(t).pc \notin SuspendPcs
Scheduled(t) == \A u \in Tasks \ {t} : ~Running(u)

At(t, fn, pc) ==
    /\ stack[t] # << >>
    /\ Top(t).fn = fn
    /\ Top(t).pc = pc
    /\ Scheduled(t)

\* the frame f replaces the innermost frame of t
Stay(t, f) ==
    /\ stack' = [stack EXCEPT ![t] = <<f>> \o Tail(@)]
    /\ UNCHANGED << ret, result >>

\* callee is awaited by the innermost frame, which resumes as cont
Call(t, cont, callee) ==
    /\ stack' = [stack EXCEPT ![t] = <<callee, cont>> \o Tail(@)]
    /\ UNCHANGED << ret, result >>

Outcome(f, v) ==
    [op |-> f.fn, name |-> f.name, kind |-> f.kind, bytes |-> TotalLen(f.bufs),
     c0 |-> f.c0, s0 |-> f.s0, tag |-> v.tag, err |-> v.err, val |-> v.val, val2 |-> v.val2]

NoOutcome ==
    [op |-> "", name |-> "", kind |-> "", bytes |-> 0, c0 |-> FALSE, s0 |-> 0,
     tag |-> "", err |-> "", val |-> 0, val2 |-> 0]

\* the innermost frame of t returns v; a public call's value is the task's result
Return(t, v) ==
    /\ stack' = [stack EXCEPT ![t] = Tail(@)]
    /\ ret' = [ret EXCEPT ![t] = v]
    /\ result' = IF Len(stack[t]) = 1
                 THEN [result EXCEPT ![t] = Outcome(Top(t), v)]
                 ELSE result

\* what dropping every guard task t holds leaves behind: a WriteBufferGuard
\* dropped without unlock() leaves corrupted as lock() set it
DropWriteBuffer(t) == IF write_buffer.owner = t THEN [write_buffer EXCEPT !.owner = 0]
                      ELSE write_buffer
DropMaxRequestBytes(t) == IF max_request_bytes.owner = t
                          THEN [max_request_bytes EXCEPT !.owner = 0]
                          ELSE max_request_bytes
DropExtensions(t) == IF extensions.owner = t THEN [extensions EXCEPT !.owner = 0]
                     ELSE extensions
DropIdAllocator(t) == IF id_allocator.owner = t THEN [id_allocator EXCEPT !.owner = 0]
                      ELSE id_allocator

\* the whole future of task t is dropped (a panic unwinding, or the caller abandoning it)
Unwind(t, tag, why) ==
    /\ stack' = [stack EXCEPT ![t] = << >>]
    /\ ret' = [ret EXCEPT ![t] = NoRet]
    /\ result' = [result EXCEPT ![t] =
                     Outcome(stack[t][Len(stack[t])], [tag |-> tag, err |-> why, val |-> 0, val2 |-> 0])]
    /\ write_buffer' = DropWriteBuffer(t)
    /\ max_request_bytes' = DropMaxRequestBytes(t)
    /\ extensions' = DropExtensions(t)
    /\ id_allocator' = DropIdAllocator(t)

Locks == << write_buffer, max_request_bytes, extensions, id_allocator >>

-----------------------------------------------------------------------------
(* WriteBuffer::lock and WriteBufferGuard::unlock.                          *)

WriteBuffer_lock_Unchecked(wb, t) ==
    [ok |-> TRUE, wb |-> [wb EXCEPT !.corrupted = TRUE, !.owner = t]]

\* lock(), once the mutex is granted: mem::replace(&mut lock.corrupted, true)
WriteBuffer_lock(wb, t) ==
    IF wb.corrupted
    THEN [ok |-> FALSE, wb |-> wb]
    ELSE [ok |-> TRUE, wb |-> [wb EXCEPT !.corrupted = TRUE, !.owner = t]]

WriteBufferGuard_unlock(wb) == [wb EXCEPT !.corrupted = FALSE, !.owner = 0]

CorruptedError == Err("IoError: The write buffer was corrupted")

-----------------------------------------------------------------------------
(* The transport stream.  A write accepts all the bytes offered, or, within *)
(* the fault budget, one byte, no byte, would-block or an I/O error.        *)

FaultsLeft == env.faults < MaxFaults
Fault == env' = [env EXCEPT !.faults = @ + 1]

WriteOutcomes(avail, fds) ==
    { [tag |-> "Ok", n |-> avail, takefds |-> TRUE] }
    \cup (IF FaultsLeft
          THEN { [tag |-> "Ok", n |-> 0, takefds |-> FALSE],
                 [tag |-> "WouldBlock", n |-> 0, takefds |-> FALSE],
                 [tag |-> "Err", n |-> 0, takefds |-> FALSE] }
               \cup (IF avail > 1 THEN { [tag |-> "Ok", n |-> 1, takefds |-> TRUE] } ELSE {})
               \cup (IF fds > 0 THEN { [tag |-> "Ok", n |-> avail, takefds |-> FALSE] } ELSE {})
          ELSE {})

IsFault(o, avail) == ~(o.tag = "Ok" /\ o.n = avail /\ o.takefds)

-----------------------------------------------------------------------------
(* flush_impl: write the whole buffer, then require the descriptors gone.   *)

FlushImplStart(t) ==
    /\ At(t, "flush_impl", "start")
    /\ IF write_buffer.buffer = << >> /\ write_buffer.fds = 0
       THEN Return(t, Ok(0))
       ELSE Stay(t, [Top(t) EXCEPT !.pc = "write", !.pos = 0])
    /\ UNCHANGED << write_buffer, wire, proto, sent, max_request_bytes, extensions,
                    id_allocator, server, ghost, setup, env, handshake >>

FlushImplWrite_FromStart(t) ==
    /\ At(t, "flush_impl", "write")
    /\ Top(t).pos < BLen(write_buffer.buffer)
    /\ LET f == Top(t)
           rest == write_buffer.buffer
           avail == BLen(rest)
       IN  \E o \in WriteOutcomes(avail, write_buffer.fds) :
             /\ env' = IF IsFault(o, avail) THEN [env EXCEPT !.faults = @ + 1] ELSE env
             /\ CASE o.tag = "Ok" /\ o.n > 0 ->
                       /\ wire' = BCat(wire, BTake(rest, o.n))
                       /\ write_buffer' = [write_buffer EXCEPT
                                             !.fds = IF o.takefds THEN 0 ELSE @]
                       /\ Stay(t, [f EXCEPT !.pos = @ + o.n])
                  [] o.tag = "Ok" /\ o.n = 0 ->
                       /\ write_buffer' = DropWriteBuffer(t)
                       /\ Return(t, Err("IoError: failed to write whole buffer"))
                       /\ UNCHANGED wire
                  [] o.tag = "WouldBlock" ->
                       /\ Stay(t, [f EXCEPT !.pc = "writable"])
                       /\ UNCHANGED << wire, write_buffer >>
                  [] OTHER ->
                       /\ write_buffer' = DropWriteBuffer(t)
                       /\ Return(t, Err("IoError"))
                       /\ UNCHANGED wire
    /\ UNCHANGED << proto, sent, max_request_bytes, extensions, id_allocator, server,
                    ghost, setup, handshake >>

\* one stream.write of the closure's loop, while position < buffer.len()
FlushImplWrite(t) ==
    /\ At(t, "flush_impl", "write")
    /\ Top(t).pos < BLen(write_buffer.buffer)
    /\ LET f == Top(t)
           rest == BDrop(write_buffer.buffer, f.pos)
           avail == BLen(rest)
       IN  \E o \in WriteOutcomes(avail, write_buffer.fds) :
             /\ env' = IF IsFault(o, avail) THEN [env EXCEPT !.faults = @ + 1] ELSE env
             /\ CASE o.tag = "Ok" /\ o.n > 0 ->
                       /\ wire' = BCat(wire, BTake(rest, o.n))
                       /\ write_buffer' = [write_buffer EXCEPT
                                             !.fds = IF o.takefds THEN 0 ELSE @]
                       /\ Stay(t, [f EXCEPT !.pos = @ + o.n])
                  [] o.tag = "Ok" /\ o.n = 0 ->
                       /\ write_buffer' = DropWriteBuffer(t)
                       /\ Return(t, Err("IoError: failed to write whole buffer"))
                       /\ UNCHANGED wire
                  [] o.tag = "WouldBlock" ->
                       /\ Stay(t, [f EXCEPT !.pc = "writable"])
                       /\ UNCHANGED << wire, write_buffer >>
                  [] OTHER ->
                       /\ write_buffer' = DropWriteBuffer(t)
                       /\ Return(t, Err("IoError"))
                       /\ UNCHANGED wire
    /\ UNCHANGED << proto, sent, max_request_bytes, extensions, id_allocator, server,
                    ghost, setup, handshake >>

\* write_with: stream.writable().await?, then the closure runs again
FlushImplWritable(t) ==
    /\ At(t, "flush_impl", "writable")
    /\ \/ /\ Stay(t, [Top(t) EXCEPT !.pc = "write"])
          /\ UNCHANGED << write_buffer, env >>
       \/ /\ FaultsLeft
          /\ Fault
          /\ write_buffer' = DropWriteBuffer(t)
          /\ Return(t, Err("IoError"))
    /\ UNCHANGED << wire, proto, sent, max_request_bytes, extensions, id_allocator,
                    server, ghost, setup, handshake >>

FlushImplDone_IgnoresFds(t) ==
    /\ At(t, "flush_impl", "write")
    /\ Top(t).pos >= BLen(write_buffer.buffer)
    /\ write_buffer' = [write_buffer EXCEPT !.buffer = << >>]
    /\ Return(t, Ok(0))
    /\ UNCHANGED << wire, proto, sent, max_request_bytes, extensions, id_allocator,
                    server, ghost, setup, env, handshake >>

\* the closure returned Ok(()): the descriptors must be gone, the buffer is cleared
FlushImplDone(t) ==
    /\ At(t, "flush_impl", "write")
    /\ Top(t).pos >= BLen(write_buffer.buffer)
    /\ IF write_buffer.fds # 0
       THEN /\ write_buffer' = DropWriteBuffer(t)
            /\ Return(t, Err("IoError: failed to write all fds"))
       ELSE /\ write_buffer' = [write_buffer EXCEPT !.buffer = << >>]
            /\ Return(t, Ok(0))
    /\ UNCHANGED << wire, proto, sent, max_request_bytes, extensions, id_allocator,
                    server, ghost, setup, env, handshake >>

-----------------------------------------------------------------------------
(* write_all_vectored: buffer the request, or write it to the stream.       *)

\* how many whole slices n bytes consume, and the rest of the slice reached:
\* the "while n > 0" loop after write_vectored
RECURSIVE Advance(_, _, _)
Advance(bufs, partial, n) ==
    IF n <= 0 THEN [bufs |-> bufs, partial |-> partial]
    ELSE IF n >= BLen(bufs[1]) THEN Advance(Tail(bufs), partial, n - BLen(bufs[1]))
    ELSE [bufs |-> bufs, partial |-> BDrop(bufs[1], n)]

\* the number of bytes a scripted transport result accepts of avail bytes
Accepts(o, avail) == IF o = "full" THEN avail ELSE IF o = "one" THEN 1 ELSE 0

\* the closure handed to write_with on the direct path, run on a script of
\* transport results; used counts the results it consumed
RECURSIVE DirectClosure(_, _, _, _, _, _)
DirectClosure(total_len, partial, bufs, script, out, used) ==
    IF ~(total_len > 0 /\ partial # << >>)
    THEN [tag |-> "Ok", total |-> total_len, partial |-> partial, bufs |-> bufs,
          out |-> out, used |-> used]
    ELSE IF script = << >>
    THEN [tag |-> "Stuck", total |-> total_len, partial |-> partial, bufs |-> bufs,
          out |-> out, used |-> used]
    ELSE IF script[1] \in {"block", "err"}
    THEN [tag |-> IF script[1] = "block" THEN "WouldBlock" ELSE "Err",
          total |-> total_len, partial |-> partial, bufs |-> bufs,
          out |-> out, used |-> used + 1]
    ELSE IF partial # << >>
    THEN LET n == Accepts(script[1], BLen(partial))
         IN  IF n = 0
             THEN [tag |-> "Err", total |-> total_len, partial |-> partial,
                   bufs |-> bufs, out |-> out, used |-> used + 1]
             ELSE DirectClosure(total_len - n, BDrop(partial, n), bufs, Tail(script),
                                BCat(out, BTake(partial, n)), used + 1)
    ELSE LET n == Accepts(script[1], TotalLen(bufs))
             a == Advance(bufs, partial, n)
         IN  IF n = 0
             THEN [tag |-> "Err", total |-> total_len, partial |-> partial,
                   bufs |-> bufs, out |-> out, used |-> used + 1]
             ELSE DirectClosure(total_len - n, a.partial, a.bufs, Tail(script),
                                BCat(out, BTake(Flat(bufs), n)), used + 1)

ScriptResults == {"full", "one", "zero", "block", "err"}
Scripts == { << >> } \cup { <<a>> : a \in ScriptResults }
           \cup { <<a, b>> : a \in {"full", "one"}, b \in ScriptResults }

ScriptFaults(script) == Cardinality({ i \in 1..Len(script) : script[i] # "full" })

\* the second half of write_all_vectored: buffer what fits, else go to the stream
WriteAllVectoredFit(t, f) ==
    LET total_len == TotalLen(f.bufs)
    IN  IF total_len < Capacity
        THEN /\ write_buffer' = [write_buffer EXCEPT
                                   !.buffer = BCat(@, Flat(f.bufs)),
                                   !.fds = @ + f.fds]
             /\ Return(t, Ok(0))
        ELSE /\ Stay(t, [f EXCEPT !.pc = "direct", !.total = total_len,
                                  !.partial = << >>])
             /\ UNCHANGED write_buffer

WriteAllVectoredStart_NoFlush(t) ==
    /\ At(t, "write_all_vectored", "start")
    /\ WriteAllVectoredFit(t, Top(t))
    /\ UNCHANGED << wire, proto, sent, max_request_bytes, extensions, id_allocator,
                    server, ghost, setup, env, handshake >>

\* if the data does not fit, flush the buffer first
WriteAllVectoredStart(t) ==
    /\ At(t, "write_all_vectored", "start")
    /\ IF BLen(write_buffer.buffer) + TotalLen(Top(t).bufs) > Capacity
       THEN /\ Call(t, [Top(t) EXCEPT !.pc = "flushed"], Frame("flush_impl", "start"))
            /\ UNCHANGED write_buffer
       ELSE WriteAllVectoredFit(t, Top(t))
    /\ UNCHANGED << wire, proto, sent, max_request_bytes, extensions, id_allocator,
                    server, ghost, setup, env, handshake >>

WriteAllVectoredFlushed(t) ==
    /\ At(t, "write_all_vectored", "flushed")
    /\ IF ret[t].tag = "Err"
       THEN Return(t, ret[t]) /\ UNCHANGED write_buffer
       ELSE WriteAllVectoredFit(t, Top(t))
    /\ UNCHANGED << wire, proto, sent, max_request_bytes, extensions, id_allocator,
                    server, ghost, setup, env, handshake >>

\* write_with on the direct path: a run of the closure, or, after a would-block,
\* stream.writable().await?
WriteAllVectoredDirect(t) ==
    /\ stack[t] # << >>
    /\ Scheduled(t)
    /\ Top(t).fn = "write_all_vectored"
    /\ Top(t).pc \in {"direct", "direct_wait"}
    /\ LET f == Top(t)
       IN  IF f.pc = "direct"
           THEN \E script \in Scripts :
                  LET r == DirectClosure(f.total, f.partial, f.bufs, script, << >>, 0)
                  IN  /\ r.used = Len(script)
                      /\ r.tag # "Stuck"
                      /\ env.faults + ScriptFaults(script) <= MaxFaults
                      /\ env' = [env EXCEPT !.faults = @ + ScriptFaults(script)]
                      /\ wire' = BCat(wire, r.out)
                      /\ CASE r.tag = "Ok" ->
                                /\ Return(t, Ok(0))
                                /\ UNCHANGED write_buffer
                           [] r.tag = "WouldBlock" ->
                                /\ Stay(t, [f EXCEPT !.pc = "direct_wait",
                                                     !.total = r.total,
                                                     !.partial = r.partial,
                                                     !.bufs = r.bufs])
                                /\ UNCHANGED write_buffer
                           [] OTHER ->
                                /\ write_buffer' = DropWriteBuffer(t)
                                /\ Return(t, Err("IoError"))
           ELSE \E w \in {"ready"} \cup (IF FaultsLeft THEN {"err"} ELSE {}) :
                  IF w = "ready"
                  THEN /\ Stay(t, [f EXCEPT !.pc = "direct"])
                       /\ UNCHANGED << write_buffer, env, wire >>
                  ELSE /\ Fault
                       /\ write_buffer' = DropWriteBuffer(t)
                       /\ Return(t, Err("IoError"))
                       /\ UNCHANGED wire
    /\ UNCHANGED << proto, sent, max_request_bytes, extensions, id_allocator, server,
                    ghost, setup, handshake >>

-----------------------------------------------------------------------------
(* send_sync and send_request: the request dispatcher.                      *)

SentEntry(f, t) ==
    [bytes |-> Flat(f.bufs), kind |-> f.kind, what |-> f.what, name |-> f.name, task |-> t]

\* GetInputFocus with a length field of 1
SyncRequest == << BLit(<<GET_INPUT_FOCUS_REQUEST, 0>> \o U16Bytes(1)) >>

SendSync_AsNoReply(t) ==
    /\ At(t, "send_sync", "start")
    /\ IF ProtoRefuses(proto, "NoReply")
       THEN /\ Unwind(t, "Panic", "This request should not be blocked by syncs")
            /\ UNCHANGED << proto, sent, ghost >>
       ELSE LET p == ProtoSendRequest(proto, "NoReply")
                w == [Frame("write_all_vectored", "start") EXCEPT
                         !.bufs = SyncRequest, !.kind = "NoReply",
                         !.what = "GetInputFocus", !.seq = p.last_sequence_written]
            IN  /\ proto' = ProtoDiscardReply(p, p.last_sequence_written)
                /\ sent' = Append(sent, SentEntry(w, t))
                /\ ghost' = [ghost EXCEPT !.syncs = @ + 1]
                /\ Stay(t, w)
                /\ UNCHANGED Locks
    /\ UNCHANGED << wire, server, setup, env, handshake >>

\* send_sync: take a sequence number, discard its reply, write the packet
SendSync(t) ==
    /\ At(t, "send_sync", "start")
    /\ IF ProtoRefuses(proto, "ReplyWithoutFDs")
       THEN /\ Unwind(t, "Panic", "This request should not be blocked by syncs")
            /\ UNCHANGED << proto, sent, ghost >>
       ELSE LET p == ProtoSendRequest(proto, "ReplyWithoutFDs")
                w == [Frame("write_all_vectored", "start") EXCEPT
                         !.bufs = SyncRequest, !.kind = "ReplyWithoutFDs",
                         !.what = "GetInputFocus", !.seq = p.last_sequence_written]
            IN  /\ proto' = ProtoDiscardReply(p, p.last_sequence_written)
                /\ sent' = Append(sent, SentEntry(w, t))
                /\ ghost' = [ghost EXCEPT !.syncs = @ + 1]
                /\ Stay(t, w)
                /\ UNCHANGED Locks
    /\ UNCHANGED << wire, server, setup, env, handshake >>

SendRequestCompute_AlwaysAsks(t) ==
    /\ At(t, "send_request", "compute")
    /\ Call(t, [Top(t) EXCEPT !.pc = "computed"], Frame("maximum_request_bytes", "start"))
    /\ UNCHANGED Locks
    /\ UNCHANGED << wire, proto, sent, server, ghost, setup, env, handshake >>

\* compute_length_field up to its await: the assertion on the length, then the
\* small-request exit, or conn.maximum_request_bytes() for a request past 65535 words
SendRequestCompute(t) ==
    /\ At(t, "send_request", "compute")
    /\ LET f == Top(t)
       IN  IF TotalLen(f.bufs) % 4 = 0 /\ NeedsBigRequest(f.bufs)
           THEN /\ Call(t, [f EXCEPT !.pc = "computed"],
                        Frame("maximum_request_bytes", "start"))
                /\ UNCHANGED Locks
           ELSE LET r == compute_length_field(f.bufs, 0)
                IN  IF r.tag = "Panic"
                    THEN Unwind(t, "Panic", r.err)
                    ELSE /\ Stay(t, [f EXCEPT !.pc = "lock", !.bufs = r.bufs])
                         /\ UNCHANGED Locks
    /\ UNCHANGED << wire, proto, sent, server, ghost, setup, env, handshake >>

SendRequestComputed(t) ==
    /\ At(t, "send_request", "computed")
    /\ LET f == Top(t)
           r == compute_length_field(f.bufs, ret[t].val)
       IN  CASE r.tag = "Panic" -> Unwind(t, "Panic", r.err)
             [] r.tag = "Err" -> Return(t, Err(r.err)) /\ UNCHANGED Locks
             [] OTHER -> /\ Stay(t, [f EXCEPT !.pc = "lock", !.bufs = r.bufs])
                         /\ UNCHANGED Locks
    /\ UNCHANGED << wire, proto, sent, server, ghost, setup, env, handshake >>

\* self.write_buffer.lock().await?
SendRequestLock(t) ==
    /\ At(t, "send_request", "lock")
    /\ write_buffer.owner = 0
    /\ LET l == WriteBuffer_lock(write_buffer, t)
       IN  /\ write_buffer' = l.wb
           /\ IF l.ok THEN Stay(t, [Top(t) EXCEPT !.pc = "loop", !.s0 = Len(sent)])
                      ELSE Return(t, CorruptedError)
    /\ UNCHANGED << wire, proto, sent, max_request_bytes, extensions, id_allocator,
                    server, ghost, setup, env, handshake >>

\* the loop body: a sequence number and the write, or a synchronizing request
SendRequestLoop(t) ==
    /\ At(t, "send_request", "loop")
    /\ LET f == Top(t)
       IN  IF ProtoRefuses(proto, f.kind)
           THEN /\ Call(t, [f EXCEPT !.pc = "synced"], Frame("send_sync", "start"))
                /\ UNCHANGED << proto, sent >>
           ELSE LET p == ProtoSendRequest(proto, f.kind)
                    g == [f EXCEPT !.seq = p.last_sequence_written, !.pc = "written"]
                IN  /\ proto' = p
                    /\ sent' = Append(sent, SentEntry(f, t))
                    /\ Call(t, g, [Frame("write_all_vectored", "start") EXCEPT
                                      !.bufs = f.bufs, !.fds = f.fds])
    /\ UNCHANGED << write_buffer, wire, max_request_bytes, extensions, id_allocator,
                    server, ghost, setup, env, handshake >>

\* buffer = self.send_sync(buffer).await?
SendRequestSynced(t) ==
    /\ At(t, "send_request", "synced")
    /\ IF ret[t].tag = "Err"
       THEN Return(t, ret[t])
       ELSE Stay(t, [Top(t) EXCEPT !.pc = "loop"])
    /\ UNCHANGED << write_buffer, wire, proto, sent, max_request_bytes, extensions,
                    id_allocator, server, ghost, setup, env, handshake >>

\* buffer = self.write_all_vectored(...).await?; buffer.unlock(); Ok(seq)
SendRequestWritten(t) ==
    /\ At(t, "send_request", "written")
    /\ IF ret[t].tag = "Err"
       THEN Return(t, ret[t]) /\ UNCHANGED write_buffer
       ELSE /\ write_buffer' = WriteBufferGuard_unlock(write_buffer)
            /\ Return(t, Ok(Top(t).seq))
    /\ UNCHANGED << wire, proto, sent, max_request_bytes, extensions, id_allocator,
                    server, ghost, setup, env, handshake >>

FlushLock_NoGuard(t) ==
    /\ At(t, "flush", "lock")
    /\ Call(t, [Top(t) EXCEPT !.pc = "flushed"], Frame("flush_impl", "start"))
    /\ UNCHANGED << write_buffer, wire, proto, sent, max_request_bytes, extensions,
                    id_allocator, server, ghost, setup, env, handshake >>

-----------------------------------------------------------------------------
(* Connection::flush.                                                       *)

FlushLock(t) ==
    /\ At(t, "flush", "lock")
    /\ write_buffer.owner = 0
    /\ LET l == WriteBuffer_lock(write_buffer, t)
       IN  /\ write_buffer' = l.wb
           /\ IF l.ok
              THEN Call(t, [Top(t) EXCEPT !.pc = "flushed"], Frame("flush_impl", "start"))
              ELSE Return(t, CorruptedError)
    /\ UNCHANGED << wire, proto, sent, max_request_bytes, extensions, id_allocator,
                    server, ghost, setup, env, handshake >>

FlushFlushed(t) ==
    /\ At(t, "flush", "flushed")
    /\ IF ret[t].tag = "Err"
       THEN Return(t, ret[t]) /\ UNCHANGED write_buffer
       ELSE /\ write_buffer' = WriteBufferGuard_unlock(write_buffer)
            /\ Return(t, Ok(0))
    /\ UNCHANGED << wire, proto, sent, max_request_bytes, extensions, id_allocator,
                    server, ghost, setup, env, handshake >>

-----------------------------------------------------------------------------
(* Waiting for a reply: wait_for_reply_with_fds_impl, reached through        *)
(* Cookie::reply and wait_for_reply_or_raw_error.                            *)

ReplyFrame(seq) == [Frame("wait_for_reply_with_fds_impl", "lock") EXCEPT !.seq = seq]

\* Cookie::reply on what wait_for_reply_or_raw_error returned
CookieReply(r) ==
    IF r.tag = "Reply" THEN Ok2(r.val, r.val2)
    ELSE IF r.tag = "Error" THEN Err("X11Error")
    ELSE r

WaitReplyLock(t) ==
    /\ At(t, "wait_for_reply_with_fds_impl", "lock")
    /\ write_buffer.owner = 0
    /\ LET l == WriteBuffer_lock(write_buffer, t)
       IN  /\ write_buffer' = l.wb
           /\ IF l.ok
              THEN Call(t, [Top(t) EXCEPT !.pc = "flushed"], Frame("flush_impl", "start"))
              ELSE Return(t, CorruptedError)
    /\ UNCHANGED << wire, proto, sent, max_request_bytes, extensions, id_allocator,
                    server, ghost, setup, env, handshake >>

WaitReplyFlushed_KeepsGuard(t) ==
    /\ At(t, "wait_for_reply_with_fds_impl", "flushed")
    /\ IF ret[t].tag = "Err"
       THEN Return(t, ret[t])
       ELSE Stay(t, [Top(t) EXCEPT !.pc = "wait"])
    /\ UNCHANGED << write_buffer, wire, proto, sent, max_request_bytes, extensions,
                    id_allocator, server, ghost, setup, env, handshake >>

\* .await?.unlock(), then wait_for_incoming
WaitReplyFlushed(t) ==
    /\ At(t, "wait_for_reply_with_fds_impl", "flushed")
    /\ IF ret[t].tag = "Err"
       THEN Return(t, ret[t]) /\ UNCHANGED write_buffer
       ELSE /\ write_buffer' = WriteBufferGuard_unlock(write_buffer)
            /\ Stay(t, [Top(t) EXCEPT !.pc = "wait"])
    /\ UNCHANGED << wire, proto, sent, max_request_bytes, extensions, id_allocator,
                    server, ghost, setup, env, handshake >>

ClassifyReply_Swapped(r) ==
    IF r.first = 0
    THEN [tag |-> "Reply", err |-> "", val |-> r.val, val2 |-> r.val2]
    ELSE [tag |-> "Error", err |-> "", val |-> r.val, val2 |-> r.val2]

\* get_reply under wait_for_incoming: first byte 0 is an error, else a reply
ClassifyReply(r) ==
    IF r.first = 0
    THEN [tag |-> "Error", err |-> "", val |-> r.val, val2 |-> r.val2]
    ELSE [tag |-> "Reply", err |-> "", val |-> r.val, val2 |-> r.val2]

\* the responses of the Protocol Core a poll for sequence number seq may take
Polled(p, seq) == { r \in p.replies : r.seq = seq }
Polled_Oldest(p, seq) == { r \in p.replies : \A q \in p.replies : r.seq <= q.seq }

WaitReplyPoll_Oldest(t) ==
    /\ At(t, "wait_for_reply_with_fds_impl", "wait")
    /\ \E r \in Polled_Oldest(proto, Top(t).seq) :
         /\ proto' = ProtoTakeReply(proto, r.seq)
         /\ Return(t, ClassifyReply(r))
    /\ UNCHANGED << write_buffer, wire, sent, max_request_bytes, extensions,
                    id_allocator, server, ghost, setup, env, handshake >>

\* wait_for_incoming(get_reply): get_reply runs when the task is polled, and
\* the task is woken when the Background Reader has fed the Protocol Core
WaitReplyPoll(t) ==
    /\ At(t, "wait_for_reply_with_fds_impl", "wait")
    /\ \E r \in Polled(proto, Top(t).seq) :
         /\ proto' = ProtoTakeReply(proto, r.seq)
         /\ Return(t, ClassifyReply(r))
    /\ UNCHANGED << write_buffer, wire, sent, max_request_bytes, extensions,
                    id_allocator, server, ghost, setup, env, handshake >>

-----------------------------------------------------------------------------
(* RequestConnection::wait_for_reply.                                       *)

WaitForReplyLock(t) ==
    /\ At(t, "wait_for_reply", "lock")
    /\ write_buffer.owner = 0
    /\ LET l == WriteBuffer_lock(write_buffer, t)
       IN  /\ write_buffer' = l.wb
           /\ IF l.ok
              THEN Call(t, [Top(t) EXCEPT !.pc = "flushed"], Frame("flush_impl", "start"))
              ELSE Return(t, CorruptedError)
    /\ UNCHANGED << wire, proto, sent, max_request_bytes, extensions, id_allocator,
                    server, ghost, setup, env, handshake >>

WaitForReplyFlushed(t) ==
    /\ At(t, "wait_for_reply", "flushed")
    /\ IF ret[t].tag = "Err"
       THEN Return(t, ret[t]) /\ UNCHANGED write_buffer
       ELSE /\ write_buffer' = WriteBufferGuard_unlock(write_buffer)
            /\ Stay(t, [Top(t) EXCEPT !.pc = "wait"])
    /\ UNCHANGED << wire, proto, sent, max_request_bytes, extensions, id_allocator,
                    server, ghost, setup, env, handshake >>

\* poll_for_reply: a reply is Some(reply); an error goes to the event queue
\* and the waiter gets None
PollForReply(r) ==
    IF r.first = 0
    THEN [tag |-> "None", err |-> "", val |-> 0, val2 |-> 0]
    ELSE [tag |-> "Some", err |-> "", val |-> r.val, val2 |-> r.val2]

WaitForReplyPoll(t) ==
    /\ At(t, "wait_for_reply", "wait")
    /\ \E r \in Polled(proto, Top(t).seq) :
         /\ proto' = ProtoTakeReply(proto, r.seq)
         /\ Return(t, PollForReply(r))
    /\ UNCHANGED << write_buffer, wire, sent, max_request_bytes, extensions,
                    id_allocator, server, ghost, setup, env, handshake >>

-----------------------------------------------------------------------------
(* RequestConnection::check_for_raw_error.                                  *)

CheckForRawErrorStart_NeverSyncs(t) ==
    /\ At(t, "check_for_raw_error", "start")
    /\ Stay(t, [Top(t) EXCEPT !.pc = "lock", !.what = "flush"])
    /\ UNCHANGED << write_buffer, wire, proto, sent, max_request_bytes, extensions,
                    id_allocator, server, ghost, setup, env, handshake >>

\* prepare_check_for_reply_or_error decides whether send_sync comes first
CheckForRawErrorStart(t) ==
    /\ At(t, "check_for_raw_error", "start")
    /\ Stay(t, [Top(t) EXCEPT !.pc = "lock",
                              !.what = IF PrepareCheck(proto, Top(t).seq)
                                       THEN "sync" ELSE "flush"])
    /\ UNCHANGED << write_buffer, wire, proto, sent, max_request_bytes, extensions,
                    id_allocator, server, ghost, setup, env, handshake >>

\* self.write_buffer.lock().await?, handed to send_sync or to flush_impl
CheckForRawErrorLock(t) ==
    /\ At(t, "check_for_raw_error", "lock")
    /\ write_buffer.owner = 0
    /\ LET l == WriteBuffer_lock(write_buffer, t)
       IN  /\ write_buffer' = l.wb
           /\ IF ~l.ok THEN Return(t, CorruptedError)
              ELSE IF Top(t).what = "sync"
              THEN Call(t, [Top(t) EXCEPT !.pc = "synced"], Frame("send_sync", "start"))
              ELSE Call(t, [Top(t) EXCEPT !.pc = "flushed"], Frame("flush_impl", "start"))
    /\ UNCHANGED << wire, proto, sent, max_request_bytes, extensions, id_allocator,
                    server, ghost, setup, env, handshake >>

\* after send_sync: assert!(!prepare_check_for_reply_or_error(sequence))
CheckForRawErrorSynced(t) ==
    /\ At(t, "check_for_raw_error", "synced")
    /\ IF ret[t].tag = "Err"
       THEN Return(t, ret[t]) /\ UNCHANGED Locks
       ELSE IF PrepareCheck(proto, Top(t).seq)
       THEN Unwind(t, "Panic", "assertion failed")
       ELSE /\ Call(t, [Top(t) EXCEPT !.pc = "flushed"], Frame("flush_impl", "start"))
            /\ UNCHANGED Locks
    /\ UNCHANGED << wire, proto, sent, server, ghost, setup, env, handshake >>

CheckForRawErrorFlushed(t) ==
    /\ At(t, "check_for_raw_error", "flushed")
    /\ IF ret[t].tag = "Err"
       THEN Return(t, ret[t]) /\ UNCHANGED write_buffer
       ELSE /\ write_buffer' = WriteBufferGuard_unlock(write_buffer)
            /\ Stay(t, [Top(t) EXCEPT !.pc = "wait"])
    /\ UNCHANGED << wire, proto, sent, max_request_bytes, extensions, id_allocator,
                    server, ghost, setup, env, handshake >>

\* poll_check_for_reply_or_error: the response to seq, or None once a later
\* response was read
CheckForRawErrorPoll(t) ==
    /\ At(t, "check_for_raw_error", "wait")
    /\ IF HasReply(proto, Top(t).seq)
       THEN \E r \in Polled(proto, Top(t).seq) :
              /\ proto' = ProtoTakeReply(proto, r.seq)
              /\ Return(t, [tag |-> "Some", err |-> "", val |-> r.val, val2 |-> r.val2])
       ELSE /\ proto.last_sequence_read > Top(t).seq
            /\ Return(t, [tag |-> "None", err |-> "", val |-> 0, val2 |-> 0])
            /\ UNCHANGED proto
    /\ UNCHANGED << write_buffer, wire, sent, max_request_bytes, extensions,
                    id_allocator, server, ghost, setup, env, handshake >>

-----------------------------------------------------------------------------
(* The server and the Background Reader: the server handles request s once  *)
(* the stream holds requests 1..s whole and in order, and its answer is in  *)
(* the Protocol Core when the reader has fed it.                            *)

ExtNames == {"BIG-REQUESTS", "XC-MISC"}
MajorOpcode(name) == IF name = "BIG-REQUESTS" THEN 133 ELSE 136

\* maximum_request_length of EnableReply, in 4-byte words
EnableMaxLens == {66000, 70000}
\* start_id and count of GetXIDRangeReply; <<0, 1>> says the server has no ids left
XidRanges == { <<0, 1>>, <<2048, 2>>, <<1024, 2>> }

\* how the server may respond to a request: with a reply, with an error, or,
\* to a request without a reply, not at all
ResponseTypes(e) ==
    IF e.kind = "NoReply"
    THEN IF e.what = "user" /\ env.workload = "check" THEN {"none", "error"} ELSE {"none"}
    ELSE IF e.what = "user" /\ env.workload = "wait" THEN {"reply", "error"} ELSE {"reply"}

\* the first byte of a response: 0 in an error, 1 in a reply
FirstByte(type) == IF type = "error" THEN 0 ELSE 1

\* what a user request is answered with: the data byte of the request
Echo(e) == BAt(e.bytes, 1)

ServerAnswers(e) ==
    CASE e.what = "QueryExtension" ->
            IF server.ext[e.name] = "unset"
            THEN { [val |-> MajorOpcode(e.name), val2 |-> 0], [val |-> 0, val2 |-> 0] }
            ELSE IF server.ext[e.name] = "present"
            THEN { [val |-> MajorOpcode(e.name), val2 |-> 0] }
            ELSE { [val |-> 0, val2 |-> 0] }
      [] e.what = "Enable" -> { [val |-> m, val2 |-> 0] : m \in EnableMaxLens }
      [] e.what = "GetXIDRange" -> { [val |-> r[1], val2 |-> r[2]] : r \in XidRanges }
      [] OTHER -> { [val |-> Echo(e), val2 |-> 0] }

ServerProcess ==
    /\ \A u \in Tasks : ~Running(u)
    /\ server.processed < Len(sent)
    /\ LET s == server.processed + 1
           e == sent[s]
           n == BLen(e.bytes)
       IN  /\ BTake(BDrop(wire, server.offset), n) = e.bytes
           /\ \E a \in ServerAnswers(e), type \in ResponseTypes(e) :
                /\ server' = [server EXCEPT
                                !.processed = s,
                                !.offset = @ + n,
                                !.ext = IF e.what = "QueryExtension"
                                        THEN [@ EXCEPT ![e.name] =
                                                 IF a.val = 0 THEN "absent" ELSE "present"]
                                        ELSE @]
                /\ proto' = IF type = "none" THEN proto
                            ELSE IF s \in proto.discarded
                            THEN [proto EXCEPT !.last_sequence_read = s]
                            ELSE [proto EXCEPT
                                    !.last_sequence_read = s,
                                    !.replies = @ \cup
                                      { [seq |-> s, first |-> FirstByte(type),
                                         val |-> a.val, val2 |-> a.val2] }]
    /\ UNCHANGED << write_buffer, wire, sent, max_request_bytes, extensions,
                    id_allocator, stack, ret, result, ghost, setup, env, handshake >>

-----------------------------------------------------------------------------
(* The extension cache: extension_information under extensions.write().     *)

QueryExtensionRequest(name) ==
    LET n == IF name = "BIG-REQUESTS" THEN 12 ELSE 7
        pad == (4 - (n % 4)) % 4
        words == 2 + (n + pad) \div 4
        code == IF name = "BIG-REQUESTS" THEN 66 ELSE 88
    IN  << BCat(BLit(<<98, 0>> \o U16Bytes(words) \o U16Bytes(n) \o <<0, 0>>),
                BCat(Run(code, n), Run(0, pad))) >>

SendRequestFrame(bufs, kind, what, name) ==
    [Frame("send_request", "compute") EXCEPT
        !.bufs = bufs, !.kind = kind, !.what = what, !.name = name]

ExtInfoLock_NoWriteLock(t) ==
    /\ At(t, "extension_information", "lock")
    /\ LET f == Top(t)
           e == extensions.cache[f.name]
       IN  CASE e.tag = "Unknown" ->
                  /\ extensions' = [extensions EXCEPT !.owner = t]
                  /\ Call(t, [f EXCEPT !.pc = "queried"],
                          SendRequestFrame(QueryExtensionRequest(f.name),
                                           "ReplyWithoutFDs", "QueryExtension", f.name))
             [] e.tag = "Loading" ->
                  /\ extensions' = [extensions EXCEPT !.owner = t]
                  /\ Call(t, [f EXCEPT !.pc = "replied"], ReplyFrame(e.val))
             [] OTHER ->
                  /\ Return(t, Ok(e.val))
                  /\ UNCHANGED extensions
    /\ UNCHANGED << write_buffer, wire, proto, sent, max_request_bytes, id_allocator,
                    server, ghost, setup, env, handshake >>

\* cache.information: prefetch if the name is unknown, then resolve the entry
ExtInfoLock(t) ==
    /\ At(t, "extension_information", "lock")
    /\ extensions.owner = 0
    /\ LET f == Top(t)
           e == extensions.cache[f.name]
       IN  CASE e.tag = "Unknown" ->
                  /\ extensions' = [extensions EXCEPT !.owner = t]
                  /\ Call(t, [f EXCEPT !.pc = "queried"],
                          SendRequestFrame(QueryExtensionRequest(f.name),
                                           "ReplyWithoutFDs", "QueryExtension", f.name))
             [] e.tag = "Loading" ->
                  /\ extensions' = [extensions EXCEPT !.owner = t]
                  /\ Call(t, [f EXCEPT !.pc = "replied"], ReplyFrame(e.val))
             [] OTHER ->
                  /\ Return(t, Ok(e.val))
                  /\ UNCHANGED extensions
    /\ UNCHANGED << write_buffer, wire, proto, sent, max_request_bytes, id_allocator,
                    server, ghost, setup, env, handshake >>

ExtInfoQueried(t) ==
    /\ At(t, "extension_information", "queried")
    /\ IF ret[t].tag = "Err"
       THEN /\ extensions' = [extensions EXCEPT !.owner = 0]
            /\ Return(t, ret[t])
       ELSE /\ extensions' = [extensions EXCEPT
                                !.cache[Top(t).name] = [tag |-> "Loading", val |-> ret[t].val]]
            /\ Call(t, [Top(t) EXCEPT !.pc = "replied"], ReplyFrame(ret[t].val))
    /\ UNCHANGED << write_buffer, wire, proto, sent, max_request_bytes, id_allocator,
                    server, ghost, setup, env, handshake >>

ExtInfoReplied(t) ==
    /\ At(t, "extension_information", "replied")
    /\ LET r == CookieReply(ret[t])
       IN  IF r.tag = "Err"
           THEN /\ extensions' = [extensions EXCEPT !.owner = 0]
                /\ Return(t, r)
           ELSE /\ extensions' = [extensions EXCEPT
                                    !.owner = 0,
                                    !.cache[Top(t).name] = [tag |-> "Loaded", val |-> r.val]]
                /\ Return(t, Ok(r.val))
    /\ UNCHANGED << write_buffer, wire, proto, sent, max_request_bytes, id_allocator,
                    server, ghost, setup, env, handshake >>

ExtInfoFrame(name) == [Frame("extension_information", "lock") EXCEPT !.name = name]

\* prefetch_extension_information: cache.prefetch under extensions.write()
PrefetchExtLock(t) ==
    /\ At(t, "prefetch_extension_information", "lock")
    /\ extensions.owner = 0
    /\ LET f == Top(t)
       IN  IF extensions.cache[f.name].tag = "Unknown"
           THEN /\ extensions' = [extensions EXCEPT !.owner = t]
                /\ Call(t, [f EXCEPT !.pc = "queried"],
                        SendRequestFrame(QueryExtensionRequest(f.name),
                                         "ReplyWithoutFDs", "QueryExtension", f.name))
           ELSE /\ Return(t, Ok(0))
                /\ UNCHANGED extensions
    /\ UNCHANGED << write_buffer, wire, proto, sent, max_request_bytes, id_allocator,
                    server, ghost, setup, env, handshake >>

PrefetchExtQueried(t) ==
    /\ At(t, "prefetch_extension_information", "queried")
    /\ IF ret[t].tag = "Err"
       THEN /\ extensions' = [extensions EXCEPT !.owner = 0]
            /\ Return(t, ret[t])
       ELSE /\ extensions' = [extensions EXCEPT
                                !.owner = 0,
                                !.cache[Top(t).name] = [tag |-> "Loading", val |-> ret[t].val]]
            /\ Return(t, Ok(0))
    /\ UNCHANGED << write_buffer, wire, proto, sent, max_request_bytes, id_allocator,
                    server, ghost, setup, env, handshake >>

-----------------------------------------------------------------------------
(* Maximum-request-size negotiation.                                        *)

\* bigreq::enable: the extension's opcode, then the Enable request
BigreqEnableStart(t) ==
    /\ At(t, "bigreq_enable", "start")
    /\ Call(t, [Top(t) EXCEPT !.pc = "info"], ExtInfoFrame("BIG-REQUESTS"))
    /\ UNCHANGED << write_buffer, wire, proto, sent, max_request_bytes, extensions,
                    id_allocator, server, ghost, setup, env, handshake >>

EnableRequest(opcode) == << BLit(<<opcode, 0>> \o U16Bytes(1)) >>

BigreqEnableInfo(t) ==
    /\ At(t, "bigreq_enable", "info")
    /\ IF ret[t].tag = "Err" THEN Return(t, ret[t])
       ELSE IF ret[t].val = 0 THEN Return(t, Err("UnsupportedExtension"))
       ELSE Stay(t, SendRequestFrame(EnableRequest(ret[t].val), "ReplyWithoutFDs",
                                     "Enable", ""))
    /\ UNCHANGED << write_buffer, wire, proto, sent, max_request_bytes, extensions,
                    id_allocator, server, ghost, setup, env, handshake >>

PrefetchLenLock_Always(t) ==
    /\ At(t, "prefetch_len_impl", "lock")
    /\ max_request_bytes.owner = 0
    /\ max_request_bytes' = [max_request_bytes EXCEPT !.owner = t]
    /\ Call(t, [Top(t) EXCEPT !.pc = "enabled"], Frame("bigreq_enable", "start"))
    /\ UNCHANGED << write_buffer, wire, proto, sent, extensions, id_allocator, server,
                    ghost, setup, env, handshake >>

\* self.max_request_bytes.lock().await, and the enable request if still Unknown
PrefetchLenLock(t) ==
    /\ At(t, "prefetch_len_impl", "lock")
    /\ max_request_bytes.owner = 0
    /\ max_request_bytes' = [max_request_bytes EXCEPT !.owner = t]
    /\ IF max_request_bytes.tag = "Unknown"
       THEN Call(t, [Top(t) EXCEPT !.pc = "enabled"], Frame("bigreq_enable", "start"))
       ELSE Return(t, Ok(0))
    /\ UNCHANGED << write_buffer, wire, proto, sent, extensions, id_allocator, server,
                    ghost, setup, env, handshake >>

PrefetchLenEnabled_Forgets(t) ==
    /\ At(t, "prefetch_len_impl", "enabled")
    /\ UNCHANGED max_request_bytes
    /\ Return(t, Ok(0))
    /\ UNCHANGED << write_buffer, wire, proto, sent, extensions, id_allocator, server,
                    ghost, setup, env, handshake >>

\* *mrl = MaxRequestBytes::Requested(cookie), cookie being enable(..).ok()
PrefetchLenEnabled(t) ==
    /\ At(t, "prefetch_len_impl", "enabled")
    /\ max_request_bytes' = [max_request_bytes EXCEPT
                               !.tag = "Requested",
                               !.val = IF ret[t].tag = "Ok" THEN ret[t].val ELSE 0]
    /\ Return(t, Ok(0))
    /\ UNCHANGED << write_buffer, wire, proto, sent, extensions, id_allocator, server,
                    ghost, setup, env, handshake >>

PrefetchMaximumRequestBytesStart(t) ==
    /\ At(t, "prefetch_maximum_request_bytes", "start")
    /\ Call(t, [Top(t) EXCEPT !.pc = "prefetched"], Frame("prefetch_len_impl", "lock"))
    /\ UNCHANGED << write_buffer, wire, proto, sent, max_request_bytes, extensions,
                    id_allocator, server, ghost, setup, env, handshake >>

PrefetchMaximumRequestBytesDone(t) ==
    /\ At(t, "prefetch_maximum_request_bytes", "prefetched")
    /\ IF ret[t].tag = "Err"
       THEN Unwind(t, "Panic", "Failed to prefetch maximum request bytes")
       ELSE /\ max_request_bytes' = [max_request_bytes EXCEPT !.owner = 0]
            /\ Return(t, Ok(0))
            /\ UNCHANGED << write_buffer, extensions, id_allocator >>
    /\ UNCHANGED << wire, proto, sent, server, ghost, setup, env, handshake >>

MaximumRequestBytesStart(t) ==
    /\ At(t, "maximum_request_bytes", "start")
    /\ Call(t, [Top(t) EXCEPT !.pc = "prefetched"], Frame("prefetch_len_impl", "lock"))
    /\ UNCHANGED << write_buffer, wire, proto, sent, max_request_bytes, extensions,
                    id_allocator, server, ghost, setup, env, handshake >>

\* x.try_into().ok().and_then(|x: usize| x.checked_mul(4)).unwrap_or(usize::MAX)
WordsToBytes(x) == x * 4

MaximumRequestBytesPrefetched(t) ==
    /\ At(t, "maximum_request_bytes", "prefetched")
    /\ CASE ret[t].tag = "Err" ->
              Unwind(t, "Panic", "Failed to prefetch maximum request bytes")
         [] max_request_bytes.tag = "Unknown" ->
              Unwind(t, "Panic", "unreachable: We are in the Some branch")
         [] max_request_bytes.tag = "Known" ->
              /\ max_request_bytes' = [max_request_bytes EXCEPT !.owner = 0]
              /\ Return(t, Ok(max_request_bytes.val))
              /\ UNCHANGED << write_buffer, extensions, id_allocator >>
         [] max_request_bytes.tag = "Requested" /\ max_request_bytes.val = 0 ->
              /\ max_request_bytes' = [max_request_bytes EXCEPT !.owner = 0]
              /\ Return(t, Ok(WordsToBytes(setup.maximum_request_length)))
              /\ UNCHANGED << write_buffer, extensions, id_allocator >>
         [] OTHER ->
              /\ Call(t, [Top(t) EXCEPT !.pc = "replied"], ReplyFrame(max_request_bytes.val))
              /\ UNCHANGED Locks
    /\ UNCHANGED << wire, proto, sent, server, ghost, setup, env, handshake >>

\* cookie.reply().await.expect("Failed to get reply"), then Known(total)
MaximumRequestBytesReplied(t) ==
    /\ At(t, "maximum_request_bytes", "replied")
    /\ LET r == CookieReply(ret[t])
       IN  IF r.tag = "Err"
           THEN Unwind(t, "Panic", "Failed to get reply")
           ELSE /\ max_request_bytes' = [max_request_bytes EXCEPT
                                           !.owner = 0, !.tag = "Known",
                                           !.val = WordsToBytes(r.val)]
                /\ Return(t, Ok(WordsToBytes(r.val)))
                /\ UNCHANGED << write_buffer, extensions, id_allocator >>
    /\ UNCHANGED << wire, proto, sent, server, ghost, setup, env, handshake >>

-----------------------------------------------------------------------------
(* Resource ids: x11rb_protocol's IdAllocator and Connection::generate_id.  *)

RECURSIVE LowestBit(_)
LowestBit(m) == IF m % 2 = 1 THEN 1 ELSE 2 * LowestBit(m \div 2)

RECURSIVE BitOr(_, _)
BitOr(a, b) ==
    IF a = 0 THEN b
    ELSE IF b = 0 THEN a
    ELSE (IF a % 2 = 1 \/ b % 2 = 1 THEN 1 ELSE 0) + 2 * BitOr(a \div 2, b \div 2)

\* IdAllocator::new(id_base, id_mask), for a mask that is not zero
IdAllocator_new(id_base, id_mask) ==
    [next_id |-> id_base, max_id |-> BitOr(id_base, id_mask),
     increment |-> LowestBit(id_mask), owner |-> 0]

IdAvailable(a) == a.next_id <= a.max_id
IdTake(a) == [a EXCEPT !.next_id = @ + a.increment]

\* update_xid_range refuses <<0, 1>> and a count of 0
XidRangeUsable(start, count) == ~((start = 0 /\ count = 1) \/ count = 0)
IdUpdateRange(a, start, count) ==
    [a EXCEPT !.next_id = start, !.max_id = start + (count - 1) * a.increment]

\* history: the id returned, how many ranges the server had supplied by then,
\* and the last of them
NoteId(g, id) ==
    [g EXCEPT !.ids = Append(@, [id |-> id, epoch |-> g.epoch, range |-> g.range])]
NewRange(g, start, count) == [g EXCEPT !.epoch = @ + 1, !.range = <<start, count>>]

GenerateIdLock_SameId(t) ==
    /\ At(t, "generate_id", "lock")
    /\ id_allocator.owner = 0
    /\ IF IdAvailable(id_allocator)
       THEN /\ UNCHANGED id_allocator
            /\ ghost' = NoteId(ghost, id_allocator.next_id)
            /\ Return(t, Ok(id_allocator.next_id))
       ELSE /\ id_allocator' = [id_allocator EXCEPT !.owner = t]
            /\ Call(t, [Top(t) EXCEPT !.pc = "ext"], ExtInfoFrame("XC-MISC"))
            /\ UNCHANGED ghost
    /\ UNCHANGED << write_buffer, wire, proto, sent, max_request_bytes, extensions,
                    server, setup, env, handshake >>

\* lock the allocator; an id if the range has one, else ask for XC-MISC
GenerateIdLock(t) ==
    /\ At(t, "generate_id", "lock")
    /\ id_allocator.owner = 0
    /\ IF IdAvailable(id_allocator)
       THEN /\ id_allocator' = IdTake(id_allocator)
            /\ ghost' = NoteId(ghost, id_allocator.next_id)
            /\ Return(t, Ok(id_allocator.next_id))
       ELSE /\ id_allocator' = [id_allocator EXCEPT !.owner = t]
            /\ Call(t, [Top(t) EXCEPT !.pc = "ext"], ExtInfoFrame("XC-MISC"))
            /\ UNCHANGED ghost
    /\ UNCHANGED << write_buffer, wire, proto, sent, max_request_bytes, extensions,
                    server, setup, env, handshake >>

GenerateIdExt_AsksAnyway(t) ==
    /\ At(t, "generate_id", "ext")
    /\ IF ret[t].tag = "Err"
       THEN /\ id_allocator' = [id_allocator EXCEPT !.owner = 0]
            /\ Return(t, ret[t])
       ELSE /\ Call(t, [Top(t) EXCEPT !.pc = "ranged"], Frame("get_xid_range", "start"))
            /\ UNCHANGED id_allocator
    /\ UNCHANGED << write_buffer, wire, proto, sent, max_request_bytes, extensions,
                    server, ghost, setup, env, handshake >>

\* self.extension_information(XC-MISC).await?.is_some()
GenerateIdExt(t) ==
    /\ At(t, "generate_id", "ext")
    /\ IF ret[t].tag = "Err"
       THEN /\ id_allocator' = [id_allocator EXCEPT !.owner = 0]
            /\ Return(t, ret[t])
       ELSE IF ret[t].val = 0
       THEN /\ id_allocator' = [id_allocator EXCEPT !.owner = 0]
            /\ Return(t, Err("IdsExhausted"))
       ELSE /\ Call(t, [Top(t) EXCEPT !.pc = "ranged"], Frame("get_xid_range", "start"))
            /\ UNCHANGED id_allocator
    /\ UNCHANGED << write_buffer, wire, proto, sent, max_request_bytes, extensions,
                    server, ghost, setup, env, handshake >>

\* xc_misc::get_xid_range: the extension's opcode, then the GetXIDRange request
GetXidRangeStart(t) ==
    /\ At(t, "get_xid_range", "start")
    /\ Call(t, [Top(t) EXCEPT !.pc = "info"], ExtInfoFrame("XC-MISC"))
    /\ UNCHANGED << write_buffer, wire, proto, sent, max_request_bytes, extensions,
                    id_allocator, server, ghost, setup, env, handshake >>

GetXidRangeRequest(opcode) == << BLit(<<opcode, 1>> \o U16Bytes(1)) >>

GetXidRangeInfo(t) ==
    /\ At(t, "get_xid_range", "info")
    /\ IF ret[t].tag = "Err" THEN Return(t, ret[t])
       ELSE IF ret[t].val = 0 THEN Return(t, Err("UnsupportedExtension"))
       ELSE Stay(t, SendRequestFrame(GetXidRangeRequest(ret[t].val), "ReplyWithoutFDs",
                                     "GetXIDRange", ""))
    /\ UNCHANGED << write_buffer, wire, proto, sent, max_request_bytes, extensions,
                    id_allocator, server, ghost, setup, env, handshake >>

GenerateIdRanged(t) ==
    /\ At(t, "generate_id", "ranged")
    /\ IF ret[t].tag = "Err"
       THEN /\ id_allocator' = [id_allocator EXCEPT !.owner = 0]
            /\ Return(t, ret[t])
       ELSE /\ Call(t, [Top(t) EXCEPT !.pc = "range_reply"], ReplyFrame(ret[t].val))
            /\ UNCHANGED id_allocator
    /\ UNCHANGED << write_buffer, wire, proto, sent, max_request_bytes, extensions,
                    server, ghost, setup, env, handshake >>

\* update_xid_range(reply)?, then generate_id().ok_or(IdsExhausted)
GenerateIdRangeReply(t) ==
    /\ At(t, "generate_id", "range_reply")
    /\ LET r == CookieReply(ret[t])
           a == IdUpdateRange(id_allocator, r.val, r.val2)
       IN  CASE r.tag = "Err" ->
                  /\ id_allocator' = [id_allocator EXCEPT !.owner = 0]
                  /\ Return(t, r)
                  /\ UNCHANGED ghost
             [] ~XidRangeUsable(r.val, r.val2) ->
                  /\ id_allocator' = [id_allocator EXCEPT !.owner = 0]
                  /\ Return(t, Err("IdsExhausted"))
                  /\ UNCHANGED ghost
             [] ~IdAvailable(a) ->
                  /\ id_allocator' = [a EXCEPT !.owner = 0]
                  /\ Return(t, Err("IdsExhausted"))
                  /\ ghost' = NewRange(ghost, r.val, r.val2)
             [] OTHER ->
                  /\ id_allocator' = [IdTake(a) EXCEPT !.owner = 0]
                  /\ Return(t, Ok(a.next_id))
                  /\ ghost' = NoteId(NewRange(ghost, r.val, r.val2), a.next_id)
    /\ UNCHANGED << write_buffer, wire, proto, sent, max_request_bytes, extensions,
                    server, setup, env, handshake >>

-----------------------------------------------------------------------------
(* The callers: which public calls a run makes, and with what requests.     *)

Workloads == {"send", "mrl", "ids", "ext", "wait", "check"}

\* of the callers that wait for replies, the first sends requests with a reply
\* and the others requests whose reply carries descriptors
RequestShapes(w, t) ==
    IF w = "send" THEN {"small", "reply", "mid", "cap", "big", "fd"}
    ELSE IF w = "mrl" THEN {"big"}
    ELSE IF w = "wait" THEN (IF t = 1 THEN {"reply"} ELSE {"replyfd"})
    ELSE IF w = "check" THEN {"small", "cap"}
    ELSE {}

\* a serialized request of task t: opcode, a data byte, the 16-bit length field
\* in 4-byte words (0 when it does not fit), and the payload
UserRequest(shape, t) ==
    CASE shape = "small" -> << BLit(<<127, t>> \o U16Bytes(1)) >>
      [] shape = "fd" -> << BLit(<<130, t>> \o U16Bytes(1)) >>
      [] shape = "reply" -> << BCat(BLit(<<3, t>> \o U16Bytes(2)), Run(200 + t, 4)) >>
      [] shape = "replyfd" -> << BCat(BLit(<<5, t>> \o U16Bytes(2)), Run(200 + t, 4)) >>
      [] shape = "mid" -> << BLit(<<72, t>> \o U16Bytes(4094)), Run(200 + t, 16372) >>
      [] shape = "cap" -> << BCat(BLit(<<72, t>> \o U16Bytes(4096)), Run(200 + t, 16380)) >>
      [] OTHER -> << BLit(<<72, t, 0, 0>>), Run(200 + t, 267996) >>

UserKind(shape) ==
    IF shape = "reply" THEN "ReplyWithoutFDs"
    ELSE IF shape = "replyfd" THEN "ReplyWithFDs"
    ELSE "NoReply"

\* the number of descriptors passed with the request
UserFds(shape) == IF shape = "fd" THEN 1 ELSE 0

CallBudget(w) ==
    IF w \in {"ids", "wait"} THEN MaxCalls + 2
    ELSE IF w = "check" THEN MaxCalls + 1
    ELSE IF w = "len" THEN 1
    ELSE MaxCalls

\* tasks are interchangeable: a task makes its first call after the tasks before it
Started(t) == stack[t] # << >> \/ result[t].op # ""

Idle(t) ==
    /\ stack[t] = << >>
    /\ Scheduled(t)
    /\ env.calls < CallBudget(env.workload)
    /\ \A u \in Tasks : u < t => Started(u)

Begin(t, f) ==
    /\ stack' = [stack EXCEPT ![t] =
                    << [f EXCEPT !.c0 = write_buffer.corrupted /\ write_buffer.owner = 0,
                                 !.s0 = Len(sent)] >>]
    /\ env' = [env EXCEPT !.calls = @ + 1]
    /\ UNCHANGED << write_buffer, wire, proto, sent, max_request_bytes, extensions,
                    id_allocator, server, ret, result, ghost, setup, handshake >>

\* send_request_with_reply / send_request_with_reply_with_fds /
\* send_request_without_reply
StartSendRequest(t) ==
    /\ Idle(t)
    /\ \E shape \in RequestShapes(env.workload, t) :
         Begin(t, [SendRequestFrame(UserRequest(shape, t), UserKind(shape), "user", shape)
                      EXCEPT !.fds = UserFds(shape)])

StartFlush(t) ==
    /\ Idle(t)
    /\ env.workload = "send"
    /\ Begin(t, Frame("flush", "lock"))

StartMaximumRequestBytes(t) ==
    /\ Idle(t)
    /\ env.workload = "mrl"
    /\ Begin(t, Frame("maximum_request_bytes", "start"))

StartPrefetchMaximumRequestBytes(t) ==
    /\ Idle(t)
    /\ env.workload = "mrl"
    /\ Begin(t, Frame("prefetch_maximum_request_bytes", "start"))

StartGenerateId(t) ==
    /\ Idle(t)
    /\ env.workload = "ids"
    /\ Begin(t, Frame("generate_id", "lock"))

\* task t holds the cookie of its last call: a request whose reply is not taken
HasCookie(t) ==
    /\ result[t].op = "send_request"
    /\ result[t].tag = "Ok"
    /\ result[t].kind \in {"ReplyWithoutFDs", "ReplyWithFDs"}

\* discard_reply(sequence, kind, mode), as a dropped cookie calls it: one
\* call of the Protocol Core under its lock, with no suspension point.  Both
\* modes leave the Protocol Core with no reply to hand out for the number.
DiscardReply(t) ==
    /\ Idle(t)
    /\ env.workload = "wait"
    /\ HasCookie(t)
    /\ proto' = ProtoDiscardReply(proto, result[t].val)
    /\ result' = [result EXCEPT ![t] =
                     Outcome([Frame("discard_reply", "") EXCEPT !.seq = result[t].val,
                                                                !.s0 = Len(sent)],
                             Ok(result[t].val))]
    /\ env' = [env EXCEPT !.calls = @ + 1]
    /\ UNCHANGED << write_buffer, wire, sent, max_request_bytes, extensions,
                    id_allocator, server, stack, ret, ghost, setup, handshake >>

\* Cookie::raw_reply: wait_for_reply_or_raw_error(cookie.sequence_number());
\* CookieWithFds::raw_reply: wait_for_reply_with_fds_raw, the same wait
StartWaitForReplyOrRawError(t) ==
    /\ Idle(t)
    /\ env.workload = "wait"
    /\ HasCookie(t)
    /\ Begin(t, ReplyFrame(result[t].val))

StartWaitForReply(t) ==
    /\ Idle(t)
    /\ env.workload = "wait"
    /\ HasCookie(t)
    /\ Begin(t, [Frame("wait_for_reply", "lock") EXCEPT !.seq = result[t].val])

\* VoidCookie::check: check_for_raw_error(cookie.sequence_number())
StartCheckForRawError(t) ==
    /\ Idle(t)
    /\ env.workload = "check"
    /\ result[t].op = "send_request"
    /\ result[t].tag = "Ok"
    /\ result[t].kind = "NoReply"
    /\ Begin(t, [Frame("check_for_raw_error", "start") EXCEPT !.seq = result[t].val])

StartExtensionInformation(t) ==
    /\ Idle(t)
    /\ env.workload = "ext"
    /\ \E name \in ExtNames : Begin(t, ExtInfoFrame(name))

StartPrefetchExtensionInformation(t) ==
    /\ Idle(t)
    /\ env.workload = "ext"
    /\ \E name \in ExtNames :
         Begin(t, [Frame("prefetch_extension_information", "lock") EXCEPT !.name = name])

\* parse_error / parse_event: synchronous calls that block the thread in
\* future::block_on(self.extensions.read()) until no writer holds the cache
ParseFns == {"parse_error", "parse_event"}

StartParse(t) ==
    /\ Idle(t)
    /\ env.workload = "ext"
    /\ \E fn \in ParseFns : Begin(t, Frame(fn, "read"))

\* the read guard is taken and dropped inside the call; while a writer holds
\* the cache the thread stays blocked and polls no task
ParseRead(t) ==
    /\ stack[t] # << >>
    /\ Top(t).fn \in ParseFns
    /\ Top(t).pc = "read"
    /\ Scheduled(t)
    /\ extensions.owner = 0
    /\ Return(t, Ok(0))
    /\ UNCHANGED << write_buffer, wire, proto, sent, max_request_bytes, extensions,
                    id_allocator, server, ghost, setup, env, handshake >>

\* the caller drops the future of its call at a suspension point
Cancel(t) ==
    /\ stack[t] # << >>
    /\ Top(t).pc \in SuspendPcs
    /\ Scheduled(t)
    /\ FaultsLeft
    /\ Fault
    /\ Unwind(t, "Cancelled", "")
    /\ UNCHANGED << wire, proto, sent, server, ghost, setup, handshake >>

-----------------------------------------------------------------------------
(* The handshake: connect_to_stream_with_auth_info and                      *)
(* for_connected_stream.                                                    *)

\* the setup request of Connect::with_authorization with no authorization
SetupRequest == BCat(BLit(<<108, 0, 11, 0, 0, 0>>), Run(0, 6))
SetupRequestLen == BLen(SetupRequest)

\* IdAllocator::new refuses a mask of zero
ZeroIdMask(id_mask) == id_mask = 0

\* the fields of the RustConnection that for_connected_stream builds
for_connected_stream(s) ==
    [write_buffer |-> [buffer |-> << >>, fds |-> 0, corrupted |-> FALSE, owner |-> 0],
     setup |-> s,
     max_request_bytes |-> [owner |-> 0, tag |-> "Unknown", val |-> 0],
     id_allocator |-> IdAllocator_new(s.resource_id_base, s.resource_id_mask),
     extensions |-> [owner |-> 0,
                     cache |-> [n \in ExtNames |-> [tag |-> "Unknown", val |-> 0]]]]

\* no RustConnection exists
NoSetup == [resource_id_base |-> 0, resource_id_mask |-> 0,
            maximum_request_length |-> 0, roots |-> 0]
NoConnection ==
    [write_buffer |-> [buffer |-> << >>, fds |-> 0, corrupted |-> FALSE, owner |-> 0],
     setup |-> NoSetup,
     max_request_bytes |-> [owner |-> 0, tag |-> "Unknown", val |-> 0],
     id_allocator |-> [next_id |-> 0, max_id |-> 0, increment |-> 0, owner |-> 0],
     extensions |-> [owner |-> 0,
                     cache |-> [n \in ExtNames |-> [tag |-> "Unknown", val |-> 0]]]]

Holds(c) ==
    /\ write_buffer = c.write_buffer
    /\ setup = c.setup
    /\ max_request_bytes = c.max_request_bytes
    /\ id_allocator = c.id_allocator
    /\ extensions = c.extensions

Constructed(s) == Holds(for_connected_stream(s))

\* nothing has been sent, asked or answered yet
Fresh ==
    /\ wire = << >>
    /\ proto = [last_sequence_written |-> 0, next_reply_expected |-> 0,
                last_sequence_read |-> 0, replies |-> {}, discarded |-> {}]
    /\ sent = << >>
    /\ server = [processed |-> 0, offset |-> 0, ext |-> [n \in ExtNames |-> "unset"]]
    /\ stack = [t \in Tasks |-> << >>]
    /\ ret = [t \in Tasks |-> NoRet]
    /\ result = [t \in Tasks |-> NoOutcome]
    /\ ghost = [syncs |-> 0, ids |-> << >>, epoch |-> 0, range |-> <<0, 0>>]

\* the handshake of a connection that is in use is over
Established ==
    [pc |-> "connected", screen |-> 0, nwritten |-> 0, nread |-> 0,
     reply |-> [status |-> 1, len |-> 0, setup |-> NoSetup], err |-> ""]

Screens == {0, 1, 2}
\* the server's answer to the setup request: Failed (0), Success (1) with its
\* Setup, or Authenticate (2); len is its length in bytes, 8 of them the header
SetupReplies ==
    { [status |-> 0, len |-> 8, setup |-> NoSetup],
      [status |-> 2, len |-> 12, setup |-> NoSetup] }
    \cup { [status |-> 1, len |-> 16,
            setup |-> [resource_id_base |-> 1024, resource_id_mask |-> m,
                       maximum_request_length |-> 65535, roots |-> r]] :
           m \in {0, 1}, r \in {0, 1, 2} }

HandshakeIs(pc) == handshake.pc = pc

Fail(e) == handshake' = [handshake EXCEPT !.pc = "failed", !.err = e]

HandshakeOnly ==
    UNCHANGED << proto, sent, server, stack, ret, result, ghost, env >>

NotConstructed ==
    UNCHANGED << write_buffer, setup, max_request_bytes, id_allocator, extensions >>

\* while nwritten < setup_request.len(): stream.write(&setup_request[nwritten..])
ConnectWrite ==
    /\ HandshakeIs("write")
    /\ LET left == SetupRequestLen - handshake.nwritten
       IN  IF left = 0
           THEN /\ handshake' = [handshake EXCEPT !.pc = "read"]
                /\ UNCHANGED wire
           ELSE \E o \in {"all", "one", "zero", "block", "err"} :
                  CASE o = "all" \/ o = "one" ->
                         LET n == IF o = "all" THEN left ELSE 1
                         IN  /\ wire' = BCat(wire, BTake(BDrop(SetupRequest,
                                                               handshake.nwritten), n))
                             /\ handshake' = [handshake EXCEPT !.nwritten = @ + n]
                    [] o = "zero" -> Fail("IoError: WriteZero") /\ UNCHANGED wire
                    [] o = "block" -> /\ handshake' = [handshake EXCEPT !.pc = "writable"]
                                      /\ UNCHANGED wire
                    [] OTHER -> Fail("IoError") /\ UNCHANGED wire
    /\ HandshakeOnly
    /\ NotConstructed

\* write_with: stream.writable().await?
ConnectWritable ==
    /\ HandshakeIs("writable")
    /\ \/ handshake' = [handshake EXCEPT !.pc = "write"]
       \/ Fail("IoError")
    /\ UNCHANGED wire
    /\ HandshakeOnly
    /\ NotConstructed

\* Connect::buffer(): the part of the reply that is still missing, the 8-byte
\* header first and then what the header announces
ConnectBufferLen == IF handshake.nread < 8 THEN 8 - handshake.nread
                    ELSE handshake.reply.len - handshake.nread

\* Connect::advance(adv): TRUE once the whole reply has been read
ConnectAdvanceDone(adv) == handshake.nread + adv = handshake.reply.len

\* stream.read(connect.buffer(), ..), then connect.advance(adv)
ConnectRead ==
    /\ HandshakeIs("read")
    /\ \E o \in {"all", "one", "eof", "block", "err"} :
         CASE o = "eof" -> Fail("IoError: UnexpectedEof")
           [] o = "err" -> Fail("IoError")
           [] OTHER ->
                LET adv == IF o = "block" THEN 0
                           ELSE IF o = "all" THEN ConnectBufferLen ELSE 1
                IN  handshake' = [handshake EXCEPT
                                    !.nread = @ + adv,
                                    !.pc = IF ConnectAdvanceDone(adv) THEN "resolve"
                                           ELSE "readable"]
    /\ UNCHANGED wire
    /\ HandshakeOnly
    /\ NotConstructed

\* stream.readable().await?
ConnectReadable ==
    /\ HandshakeIs("readable")
    /\ \/ handshake' = [handshake EXCEPT !.pc = "read"]
       \/ Fail("IoError")
    /\ UNCHANGED wire
    /\ HandshakeOnly
    /\ NotConstructed

ScreenOutOfRange_OffByOne(roots_len, screen) == roots_len < screen

\* setup.roots.len() <= screen
ScreenOutOfRange(roots_len, screen) == roots_len <= screen

\* connect.into_setup()?, the screen check, and for_connected_stream
ConnectResolve ==
    /\ HandshakeIs("resolve")
    /\ LET r == handshake.reply
       IN  CASE r.status = 0 -> Fail("SetupFailed") /\ NotConstructed
             [] r.status = 2 -> Fail("SetupAuthenticate") /\ NotConstructed
             [] ScreenOutOfRange(r.setup.roots, handshake.screen) ->
                  Fail("InvalidScreen") /\ NotConstructed
             [] ZeroIdMask(r.setup.resource_id_mask) ->
                  Fail("ZeroIdMask") /\ NotConstructed
             [] OTHER ->
                  /\ handshake' = [handshake EXCEPT !.pc = "connected"]
                  /\ LET c == for_connected_stream(r.setup)
                     IN  /\ write_buffer' = c.write_buffer
                         /\ setup' = c.setup
                         /\ max_request_bytes' = c.max_request_bytes
                         /\ id_allocator' = c.id_allocator
                         /\ extensions' = c.extensions
    /\ UNCHANGED wire
    /\ HandshakeOnly

InitConnect ==
    /\ Fresh
    /\ Holds(NoConnection)
    /\ env = [workload |-> "connect", calls |-> 0, faults |-> 0]
    /\ \E screen \in Screens, reply \in SetupReplies :
         handshake = [pc |-> "write", screen |-> screen, nwritten |-> 0, nread |-> 0,
                      reply |-> reply, err |-> ""]

NextConnect ==
    \/ ConnectWrite \/ ConnectWritable \/ ConnectRead \/ ConnectReadable
    \/ ConnectResolve

SpecConnect == InitConnect /\ [][NextConnect]_vars

\* C10: the handshake succeeds only if the requested screen is less than the
\* number of roots of the server's Setup; with a Setup whose roots do not reach
\* the screen it fails with InvalidScreen, no RustConnection is constructed and
\* no request is dispatched.  Screen 0 against 1 root succeeds (the id mask
\* being usable), screen 2 against 1 root fails.
C10_ScreenChecked ==
    /\ [](HandshakeIs("connected") =>
            /\ handshake.screen < setup.roots
            /\ setup = handshake.reply.setup)
    /\ [](HandshakeIs("failed") => Holds(NoConnection) /\ sent = << >>)
    /\ [][ (HandshakeIs("resolve") /\ handshake.reply.status = 1
              /\ handshake' # handshake) =>
           IF handshake.reply.setup.roots <= handshake.screen
           THEN /\ handshake'.pc = "failed"
                /\ handshake'.err = "InvalidScreen"
                /\ UNCHANGED << write_buffer, setup, max_request_bytes, id_allocator,
                                extensions, sent, proto, wire >>
           ELSE /\ handshake'.err # "InvalidScreen"
                /\ (handshake.screen = 0 /\ handshake.reply.setup.roots = 1
                      /\ handshake.reply.setup.resource_id_mask # 0)
                   => (handshake'.pc = "connected" /\ setup'.roots = 1) ]_vars

\* screen 2 was asked of a server with 1 root, and the handshake failed
C10_Witness ==
    /\ HandshakeIs("failed")
    /\ handshake.err = "InvalidScreen"
    /\ handshake.screen = 2
    /\ handshake.reply.setup.roots = 1
    /\ handshake.nread = handshake.reply.len
    /\ wire = SetupRequest


-----------------------------------------------------------------------------
(* The specification.                                                       *)

Setups(w) ==
    IF w = "ids"
    THEN { [resource_id_base |-> 1024, resource_id_mask |-> m,
            maximum_request_length |-> 65535, roots |-> 1] : m \in {1, 2} }
    ELSE { [resource_id_base |-> 1024, resource_id_mask |-> 1,
            maximum_request_length |-> 65535, roots |-> 1] }

\* the state for_connected_stream leaves
Init ==
    /\ Fresh
    /\ env \in { [workload |-> w, calls |-> 0, faults |-> 0] :
                 w \in Workloads }
    /\ \E s \in Setups(env.workload) : Constructed(s)
    /\ handshake = Established

TaskStep(t) ==
    \/ StartSendRequest(t) \/ StartFlush(t) \/ StartMaximumRequestBytes(t)
    \/ StartPrefetchMaximumRequestBytes(t) \/ StartGenerateId(t)
    \/ SendRequestCompute(t) \/ SendRequestComputed(t) \/ SendRequestLock(t)
    \/ SendRequestLoop(t) \/ SendRequestSynced(t) \/ SendRequestWritten(t)
    \/ SendSync(t)
    \/ WriteAllVectoredStart(t) \/ WriteAllVectoredFlushed(t) \/ WriteAllVectoredDirect(t)
    \/ FlushImplStart(t) \/ FlushImplWrite(t) \/ FlushImplWritable(t) \/ FlushImplDone(t)
    \/ FlushLock(t) \/ FlushFlushed(t)
    \/ WaitReplyLock(t) \/ WaitReplyFlushed(t) \/ WaitReplyPoll(t)
    \/ StartWaitForReplyOrRawError(t) \/ StartWaitForReply(t) \/ DiscardReply(t)
    \/ WaitForReplyLock(t) \/ WaitForReplyFlushed(t) \/ WaitForReplyPoll(t)
    \/ StartCheckForRawError(t) \/ CheckForRawErrorStart(t) \/ CheckForRawErrorLock(t)
    \/ CheckForRawErrorSynced(t) \/ CheckForRawErrorFlushed(t) \/ CheckForRawErrorPoll(t)
    \/ ExtInfoLock(t) \/ ExtInfoQueried(t) \/ ExtInfoReplied(t)
    \/ StartExtensionInformation(t) \/ StartPrefetchExtensionInformation(t)
    \/ PrefetchExtLock(t) \/ PrefetchExtQueried(t)
    \/ StartParse(t) \/ ParseRead(t)
    \/ BigreqEnableStart(t) \/ BigreqEnableInfo(t)
    \/ PrefetchLenLock(t) \/ PrefetchLenEnabled(t)
    \/ PrefetchMaximumRequestBytesStart(t) \/ PrefetchMaximumRequestBytesDone(t)
    \/ MaximumRequestBytesStart(t) \/ MaximumRequestBytesPrefetched(t)
    \/ MaximumRequestBytesReplied(t)
    \/ GenerateIdLock(t) \/ GenerateIdExt(t) \/ GetXidRangeStart(t) \/ GetXidRangeInfo(t)
    \/ GenerateIdRanged(t) \/ GenerateIdRangeReply(t)
    \/ Cancel(t)

Next == ServerProcess \/ \E t \in Tasks : TaskStep(t)

Spec == Init /\ [][Next]_vars

\* The callers that send requests with a reply and wait for the replies.
InitWait == Init /\ env.workload = "wait"

WaitStep(t) ==
    \/ StartSendRequest(t) \/ StartWaitForReplyOrRawError(t) \/ StartWaitForReply(t)
    \/ DiscardReply(t)
    \/ SendRequestCompute(t) \/ SendRequestLock(t) \/ SendRequestLoop(t)
    \/ SendRequestWritten(t) \/ WriteAllVectoredStart(t)
    \/ FlushImplStart(t) \/ FlushImplWrite(t) \/ FlushImplWritable(t) \/ FlushImplDone(t)
    \/ WaitReplyLock(t) \/ WaitReplyFlushed(t) \/ WaitReplyPoll(t)
    \/ WaitForReplyLock(t) \/ WaitForReplyFlushed(t) \/ WaitForReplyPoll(t)
    \/ Cancel(t)

NextWait == ServerProcess \/ \E t \in Tasks : WaitStep(t)

\* The executor polls a task until it returns Pending, and a task suspended in
\* wait_for_incoming is polled again after the Background Reader's wake signal.
Fairness ==
    \A t \in Tasks :
      /\ WF_vars(Running(t) /\ WaitStep(t))
      /\ SF_vars(WaitReplyPoll(t) \/ WaitForReplyPoll(t))

SpecLive == InitWait /\ [][NextWait]_vars /\ Fairness

\* The callers that contend for all four locks of one connection: any mix of
\* generate_id, maximum_request_bytes, extension_information, flush,
\* send_request and the wait for a reply.
MixedCalls(t) ==
    { Frame("generate_id", "lock"), Frame("maximum_request_bytes", "start"),
      Frame("flush", "lock"),
      SendRequestFrame(UserRequest("reply", t), UserKind("reply"), "user", "reply"),
      ExtInfoFrame("XC-MISC") }
    \cup (IF HasCookie(t) THEN { ReplyFrame(result[t].val) } ELSE {})

StartCall(t) ==
    /\ Idle(t)
    /\ env.workload = "mix"
    /\ \E f \in MixedCalls(t) : Begin(t, f)

\* a connection in use whose id range has been handed out, so that the next
\* generate_id asks the server for a new range
InitLocks ==
    /\ Fresh
    /\ env = [workload |-> "mix", calls |-> 0, faults |-> 0]
    /\ \E s \in Setups("mix") :
         LET c == for_connected_stream(s)
         IN  Holds([c EXCEPT !.id_allocator = IdTake(IdTake(@))])
    /\ handshake = Established

LockStep(t) ==
    \/ StartCall(t)
    \/ SendRequestCompute(t) \/ SendRequestLock(t) \/ SendRequestLoop(t)
    \/ SendRequestWritten(t) \/ WriteAllVectoredStart(t)
    \/ FlushImplStart(t) \/ FlushImplWrite(t) \/ FlushImplWritable(t) \/ FlushImplDone(t)
    \/ FlushLock(t) \/ FlushFlushed(t)
    \/ WaitReplyLock(t) \/ WaitReplyFlushed(t) \/ WaitReplyPoll(t)
    \/ ExtInfoLock(t) \/ ExtInfoQueried(t) \/ ExtInfoReplied(t)
    \/ BigreqEnableStart(t) \/ BigreqEnableInfo(t)
    \/ PrefetchLenLock(t) \/ PrefetchLenEnabled(t)
    \/ MaximumRequestBytesStart(t) \/ MaximumRequestBytesPrefetched(t)
    \/ MaximumRequestBytesReplied(t)
    \/ GenerateIdLock(t) \/ GenerateIdExt(t) \/ GetXidRangeStart(t) \/ GetXidRangeInfo(t)
    \/ GenerateIdRanged(t) \/ GenerateIdRangeReply(t)
    \/ Cancel(t)

NextLocks == ServerProcess \/ \E t \in Tasks : LockStep(t)

SpecLocks == InitLocks /\ [][NextLocks]_vars

-----------------------------------------------------------------------------
(* Properties of the write pipeline.                                        *)

\* the encoded requests in sequence-number order
AllSent == Flat([i \in 1..Len(sent) |-> sent[i].bytes])

\* every call has returned Ok and a flush that began after the last dispatch succeeded
AllDispatchedAndFlushed ==
    /\ \A t \in Tasks : stack[t] = << >> /\ result[t].tag \in {"", "Ok"}
    /\ sent # << >>
    /\ \E t \in Tasks : /\ result[t].op = "flush"
                        /\ result[t].tag = "Ok"
                        /\ result[t].s0 = Len(sent)

\* C1: once all dispatches have returned Ok and a flush has succeeded, the bytes
\* on the transport are exactly the concatenation of the encoded requests in
\* sequence-number order: nothing missing, duplicated, interleaved or reordered.
C1_WireIsConcatenation == AllDispatchedAndFlushed => wire = AllSent

WriteBufferLockers == {"send_request", "flush", "wait_for_reply_with_fds_impl"}

\* task t is polled at its write_buffer.lock().await and gets the mutex
LockAttempt(t) ==
    /\ stack[t] # << >>
    /\ Top(t).pc = "lock"
    /\ Top(t).fn \in WriteBufferLockers
    /\ stack'[t] # stack[t]
    /\ ~(stack'[t] = << >> /\ result'[t].tag = "Cancelled")

Abandoned == write_buffer.corrupted /\ write_buffer.owner = 0

\* C2: lock() sets the corruption flag and only unlock() clears it.  While a
\* guard is held the flag is set; once a guard was dropped without unlock()
\* the flag stays set for ever and every later lock() fails with the corruption
\* error; a lock() that finds the flag clear (after a clean unlock) succeeds.
C2_LockCorruption ==
    /\ [](write_buffer.owner # 0 => write_buffer.corrupted)
    /\ [][ /\ Abandoned => Abandoned'
           /\ \A t \in Tasks : LockAttempt(t) =>
                IF write_buffer.corrupted
                THEN /\ ret'[t] = CorruptedError
                     /\ write_buffer' = write_buffer
                ELSE /\ write_buffer'.owner = t
                     /\ write_buffer'.corrupted ]_vars

\* a lock() has failed on an abandoned pipeline, after requests went through it
C2_Witness ==
    /\ Abandoned
    /\ sent # << >>
    /\ \E t \in Tasks : /\ result[t].c0
                        /\ result[t].op \in WriteBufferLockers
                        /\ result[t].tag = "Err"
                        /\ result[t].err = CorruptedError.err

\* C3: once an operation was abandoned or failed with an I/O error inside the
\* locked write section, every send_request and flush begun afterwards returns
\* a ConnectionError, and no further bytes reach the transport.
C3_PoisonedForEver ==
    /\ [](\A t \in Tasks :
            (result[t].c0 /\ result[t].op \in {"send_request", "flush"}
               /\ result[t].tag # "Cancelled")
            => result[t].tag = "Err")
    /\ [][Abandoned => wire' = wire]_vars

\* the frame of the public call task t is in
Outer(t) == stack[t][Len(stack[t])]

\* the synchronizing requests task t has dispatched since its call began
SyncsOfCall(t) ==
    { i \in (Outer(t).s0 + 1)..Len(sent) :
        sent[i].task = t /\ sent[i].what = "GetInputFocus" }

InSendRequest(t, pc) ==
    stack[t] # << >> /\ Top(t).fn = "send_request" /\ Top(t).pc = pc

\* task t runs one pass of the loop of send_request
LoopPass(t) == InSendRequest(t, "loop") /\ stack'[t] # stack[t]

\* task t runs the sequence-number block of send_sync
SyncPass(t) ==
    /\ stack[t] # << >>
    /\ Top(t).fn = "send_sync"
    /\ Top(t).pc = "start"
    /\ stack'[t] # stack[t]

\* C11: when the Protocol Core refuses a sequence number, send_request sends
\* exactly one synchronizing request, whose own sequence number is never refused
\* and whose reply and error are discarded, and the next pass of the loop gets
\* the sequence number of the original request: the refusal is not returned to
\* the caller, and the loop ends after at most two passes.
C11_SyncOnRefusal ==
    /\ [](\A t \in Tasks :
            /\ InSendRequest(t, "synced") /\ ret[t].tag = "Ok"
                 => ~ProtoRefuses(proto, Top(t).kind) /\ Cardinality(SyncsOfCall(t)) = 1
            /\ InSendRequest(t, "written") /\ Top(t).kind = "NoReply"
                 => Cardinality(SyncsOfCall(t)) <= 1)
    /\ [](\A r \in proto.replies : sent[r.seq].what # "GetInputFocus")
    /\ [][\A t \in Tasks :
            /\ LoopPass(t) =>
                 IF ProtoRefuses(proto, Top(t).kind)
                 THEN /\ SyncsOfCall(t) = {}
                      /\ Len(stack'[t]) = Len(stack[t]) + 1
                      /\ stack'[t][1].fn = "send_sync"
                      /\ stack'[t][2] = [Top(t) EXCEPT !.pc = "synced"]
                      /\ result' = result
                      /\ proto' = proto
                 ELSE /\ proto'.last_sequence_written = proto.last_sequence_written + 1
                      /\ stack'[t][2].seq = proto'.last_sequence_written
                      /\ sent'[Len(sent')].bytes = Flat(Top(t).bufs)
            /\ SyncPass(t) =>
                 /\ stack'[t] # << >>
                 /\ stack'[t][1].fn = "write_all_vectored"
                 /\ stack'[t][1].bufs = SyncRequest
                 /\ proto'.last_sequence_written = proto.last_sequence_written + 1
                 /\ proto'.last_sequence_written \in proto'.discarded
                 /\ ~ProtoRefuses(proto', "NoReply") ]_vars

\* a send_request that was refused once has returned its sequence number, one
\* synchronizing request before it in the sequence
C11_Witness ==
    \E t \in Tasks :
      /\ result[t].op = "send_request"
      /\ result[t].tag = "Ok"
      /\ result[t].kind = "NoReply"
      /\ result[t].val >= 2
      /\ sent[result[t].val - 1].what = "GetInputFocus"
      /\ sent[result[t].val - 1].task = t
      /\ sent[result[t].val].what = "user"

\* the outgoing byte stream: what the transport took, then what is buffered
Stream == BCat(wire, write_buffer.buffer)

\* task t is about to unlock and return Ok(seq) from send_request
ReturnsSeq(t) == InSendRequest(t, "written") /\ ret[t].tag = "Ok"

\* C12: a send_request that returns Ok has consumed one sequence number for
\* its request (and one for the synchronizing request of a refusal), and the
\* outgoing byte stream holds the bytes of every request dispatched so far in
\* sequence-number order and nothing else: no number is issued whose bytes are
\* not written.
C12_OneNumberExactBytes ==
    \A t \in Tasks :
      ReturnsSeq(t) =>
        /\ Len(sent) - Top(t).s0 = 1 + Cardinality(SyncsOfCall(t))
        /\ Top(t).seq = Len(sent)
        /\ sent[Top(t).seq].bytes = Flat(Top(t).bufs)
        /\ Stream = AllSent

\* task t is in the direct-write part of write_all_vectored
OnDirectPath(t) ==
    /\ stack[t] # << >>
    /\ Top(t).fn = "write_all_vectored"
    /\ Top(t).pc \in {"direct", "direct_wait"}

\* write_all_vectored has returned Ok to send_request for a payload that went
\* the direct way
DirectReturned(t) == ReturnsSeq(t) /\ TotalLen(Top(t).bufs) >= Capacity

\* the last n bytes of the byte string b
Suffix(b, n) == BDrop(b, BLen(b) - n)

\* C16: a payload that does not fit in the emptied write buffer is written to
\* the transport directly, after the buffered bytes: when write_all_vectored
\* returns Ok the buffer is empty and the transport has received the complete
\* payload, in order, as the last bytes of the stream.  A payload that fits in
\* the emptied buffer is buffered, not written directly.
C16_DirectWrite ==
    \A t \in Tasks :
      /\ DirectReturned(t) =>
           /\ write_buffer.buffer = << >>
           /\ BLen(wire) >= TotalLen(Top(t).bufs)
           /\ Suffix(wire, TotalLen(Top(t).bufs)) = Flat(Top(t).bufs)
      /\ OnDirectPath(t) => TotalLen(stack[t][2].bufs) > Capacity

InFlushImpl(t) == stack[t] # << >> /\ Top(t).fn = "flush_impl"

\* flush_impl of task t is still running after the step
StaysInFlushImpl(t) ==
    /\ Len(stack'[t]) = Len(stack[t])
    /\ stack'[t][1].fn = "flush_impl"

\* flush_impl of task t returns Ok(buffer) in the step
FlushImplReturnsOk(t) ==
    /\ stack'[t] = Tail(stack[t])
    /\ ret'[t].tag = "Ok"
    /\ Len(stack[t]) = 1 => result'[t].tag = "Ok"

\* C17: flush_impl with an empty buffer and no pending descriptors writes
\* nothing and changes nothing.  Otherwise every transport write of the flush
\* appends the buffered bytes from the position reached, whatever part of them
\* the transport takes and wherever it would block, and the flush returns Ok
\* only when the position is the end of the buffer, leaving the buffer empty:
\* the buffered bytes are written once each and in order.
C17_FlushWritesBuffer ==
    [][\A t \in Tasks : InFlushImpl(t) =>
         LET f == Top(t)
             b == write_buffer.buffer
         IN  /\ (f.pc = "start" /\ b = << >> /\ write_buffer.fds = 0) =>
                   \/ FlushImplReturnsOk(t) /\ wire' = wire /\ write_buffer' = write_buffer
                   \/ stack'[t] = stack[t]
             /\ StaysInFlushImpl(t) =>
                   LET g == stack'[t][1]
                   IN  /\ f.pc = "start" /\ g.pc # "start" => g.pos = 0
                       /\ g.pos >= f.pos
                       /\ g.pos <= BLen(b)
                       /\ wire' = BCat(wire, BTake(BDrop(b, f.pos), g.pos - f.pos))
                       /\ write_buffer'.buffer = b
             /\ (FlushImplReturnsOk(t) /\ f.pc # "start") =>
                   /\ f.pos = BLen(b)
                   /\ wire' = wire
                   /\ write_buffer'.buffer = << >>
                   /\ write_buffer'.fds = 0 ]_vars

\* a flush of buffered requests has returned Ok although the transport took
\* them in parts or would block
C17_Witness ==
    \E t \in Tasks :
      /\ result[t].op = "flush"
      /\ result[t].tag = "Ok"
      /\ result[t].s0 > 0
      /\ env.faults > 0
      /\ \A u \in Tasks : result[u].tag # "Cancelled"
      /\ write_buffer.buffer = << >>
      /\ wire = AllSent

FdsError == Err("IoError: failed to write all fds")
WriteZeroError == Err("IoError: failed to write whole buffer")

\* the write loop of flush_impl of task t has ended with descriptors left
FdsLeft(t) ==
    /\ InFlushImpl(t)
    /\ Top(t).pc = "write"
    /\ Top(t).pos >= BLen(write_buffer.buffer)
    /\ write_buffer.fds # 0

\* C18: when descriptors are left after flush_impl has written all buffered
\* bytes, the flush returns an I/O error: it does not report success and does not
\* clear the byte buffer.  A transport write that accepts no byte is not tried
\* again: a write either makes progress, suspends for writability, or ends the
\* flush with an I/O error.
C18_DescriptorsLeft ==
    [][\A t \in Tasks :
         /\ (FdsLeft(t) /\ stack'[t] # stack[t]) =>
               /\ stack'[t] = Tail(stack[t])
               /\ ret'[t] = FdsError
               /\ write_buffer'.buffer = write_buffer.buffer
               /\ write_buffer'.fds = write_buffer.fds
               /\ wire' = wire
         /\ (InFlushImpl(t) /\ Top(t).pc = "write" /\ ~FdsLeft(t)
                /\ stack'[t] # stack[t]) =>
               \/ StaysInFlushImpl(t) /\ stack'[t][1].pc = "write"
                    /\ stack'[t][1].pos > Top(t).pos
               \/ StaysInFlushImpl(t) /\ stack'[t][1].pc = "writable" /\ wire' = wire
               \/ stack'[t] = Tail(stack[t]) /\ ret'[t].tag = "Err" /\ wire' = wire
               \/ FlushImplReturnsOk(t) /\ Top(t).pos = BLen(write_buffer.buffer)
                    /\ write_buffer.fds = 0 ]_vars

\* a flush has failed because the transport took the bytes of a request but
\* not its descriptor
C18_Witness ==
    \E t \in Tasks :
      /\ result[t].op = "flush"
      /\ result[t].tag = "Err"
      /\ result[t].err = FdsError.err
      /\ write_buffer.buffer # << >>
      /\ write_buffer.fds # 0
      /\ wire = AllSent

-----------------------------------------------------------------------------
(* Properties of the waits for incoming data.                               *)

\* task t is suspended in wait_for_incoming
Waiting(t) == stack[t] # << >> /\ Top(t).pc = "wait"

HoldsWriteBuffer(t) == write_buffer.owner = t
HoldsOtherLock(t) ==
    max_request_bytes.owner = t \/ extensions.owner = t \/ id_allocator.owner = t

\* the caller of task t drops its future while it waits for incoming data
AbandonsWait(t) == Waiting(t) /\ stack'[t] = << >> /\ result'[t].tag = "Cancelled"

\* C13 as stated: a task that waits for a reply holds none of the write-pipeline
\* lock, the extension-cache lock, the id-allocator lock and the
\* maximum-request-size lock.
C13_NoLockWhileWaiting ==
    \A t \in Tasks : Waiting(t) => ~HoldsWriteBuffer(t) /\ ~HoldsOtherLock(t)

\* C13, amended: a task that waits for a reply never holds the write-pipeline
\* lock (the guards of the extension cache, the id allocator and the maximum
\* request size may be held), and abandoning the wait leaves the write
\* pipeline, the Protocol Core and the contents of the three other cells as
\* they were, with none of them locked by the task.
C13_WaitOutsideWritePipeline ==
    /\ [](\A t \in Tasks : Waiting(t) => ~HoldsWriteBuffer(t))
    /\ [][\A t \in Tasks : AbandonsWait(t) =>
            /\ write_buffer' = write_buffer
            /\ wire' = wire /\ proto' = proto /\ sent' = sent
            /\ max_request_bytes' = [max_request_bytes EXCEPT
                                       !.owner = IF @ = t THEN 0 ELSE @]
            /\ extensions' = [extensions EXCEPT !.owner = IF @ = t THEN 0 ELSE @]
            /\ id_allocator' = [id_allocator EXCEPT !.owner = IF @ = t THEN 0 ELSE @] ]_vars

\* a wait under a guard was abandoned and the write pipeline is still usable
C13_Witness ==
    \E t \in Tasks :
      /\ result[t].tag = "Cancelled"
      /\ result[t].op \in {"maximum_request_bytes", "generate_id"}
      /\ stack[t] = << >>
      /\ \E i \in 1..Len(sent) : sent[i].task = t /\ server.processed < i
      /\ ~write_buffer.corrupted
      /\ \E u \in Tasks \ {t} : Waiting(u) /\ HoldsOtherLock(u)

WaitFns == {"wait_for_reply_with_fds_impl", "wait_for_reply"}

\* the closure of wait_for_incoming finds a response and task t returns
PollPass(t) ==
    /\ Waiting(t)
    /\ Top(t).fn \in WaitFns
    /\ stack'[t] = Tail(stack[t])
    /\ Len(stack[t]) = 1 => result'[t].tag # "Cancelled"

\* what the server answers request number seq with
AnswersTo(seq) == { a.val : a \in ServerAnswers(sent[seq]) }

\* C15: replies are correlated by sequence number only.  Whatever the order
\* in which the replies arrive and the callers start to wait, a waiter takes
\* the response of the sequence number it waits for and no other, and returns
\* its content; and a waiter whose response is in the Protocol Core eventually
\* returns.
C15_CorrelationBySequence ==
    /\ [](\A r \in proto.replies :
            /\ r.seq \in 1..Len(sent)
            /\ sent[r.seq].kind # "NoReply"
            /\ r.val \in AnswersTo(r.seq))
    /\ [][\A t \in Tasks : PollPass(t) =>
            /\ HasReply(proto, Top(t).seq)
            /\ proto'.replies = proto.replies \ {ReplyOf(proto, Top(t).seq)}
            /\ ret'[t].tag \in {"Reply", "Error", "Some"}
                 => /\ ret'[t].val = ReplyOf(proto, Top(t).seq).val
                    /\ ret'[t].val \in AnswersTo(Top(t).seq)
            /\ ret'[t].tag \in {"Reply", "Error", "Some", "None"} ]_vars
    /\ \A t \in Tasks :
         (Waiting(t) /\ Top(t).fn \in WaitFns /\ HasReply(proto, Top(t).seq))
           ~> ~Waiting(t)

\* the second of two outstanding requests was waited for first, with the reply
\* to the first still in the Protocol Core, and its waiter got its own reply
C15_Witness ==
    /\ env.workload = "wait"
    /\ Len(sent) = 2
    /\ sent[1].task # sent[2].task
    /\ HasReply(proto, 1)
    /\ ~HasReply(proto, 2)
    /\ LET t == sent[2].task
       IN  /\ result[t].op \in WaitFns
           /\ result[t].tag \in {"Reply", "Some"}
           /\ result[t].val = Echo(sent[2])
           /\ result[t].val # Echo(sent[1])

PollFns == WaitFns \cup {"check_for_raw_error"}

\* the encoded requests with sequence numbers 1..seq, in order
SentThrough(seq) == Flat([i \in 1..seq |-> sent[i].bytes])

\* task t has come to the poll of the Protocol Core for its sequence number
AtPoll(t) == Waiting(t) /\ Top(t).fn \in PollFns

\* C19: when wait_for_reply, wait_for_reply_or_raw_error,
\* wait_for_reply_with_fds_raw or check_for_raw_error comes to poll the
\* Protocol Core for sequence number s, the write pipeline was flushed and
\* released, and the transport has received the bytes of every request with a
\* sequence number up to s: no waiter suspends on a request whose bytes have
\* not been written.
C19_FlushedBeforePoll ==
    \A t \in Tasks :
      AtPoll(t) =>
        /\ ~HoldsWriteBuffer(t)
        /\ Top(t).seq \in 1..Len(sent)
        /\ BTake(wire, BLen(SentThrough(Top(t).seq))) = SentThrough(Top(t).seq)

\* C20: wait_for_reply_with_fds_impl classifies a response by its first byte:
\* first byte 0 is returned as ReplyOrError::Error, a nonzero first byte as
\* ReplyOrError::Reply, the content of the response unchanged in both cases.
C20_FirstByteClassifies ==
    [][\A t \in Tasks :
         (PollPass(t) /\ Top(t).fn = "wait_for_reply_with_fds_impl") =>
            LET r == ReplyOf(proto, Top(t).seq)
            IN  /\ ret'[t].tag = IF r.first = 0 THEN "Error" ELSE "Reply"
                /\ ret'[t].val = r.val
                /\ ret'[t].val2 = r.val2 ]_vars

\* one waiter has got an error and the other a reply
C20_Witness ==
    \E t, u \in Tasks :
      /\ result[t].op = "wait_for_reply_with_fds_impl"
      /\ result[t].tag = "Error"
      /\ result[t].val = Echo(sent[1])
      /\ result[u].op = "wait_for_reply_with_fds_impl"
      /\ result[u].tag = "Reply"
      /\ result[u].val = Echo(sent[2])

\* task t is in the body of check_for_raw_error at pc
InCheck(t, pc) ==
    stack[t] # << >> /\ Top(t).fn = "check_for_raw_error" /\ Top(t).pc = pc

\* task t runs the step of check_for_raw_error that starts at pc
CheckPass(t, pc) == InCheck(t, pc) /\ stack'[t] # stack[t]

\* C21: when prepare_check_for_reply_or_error says that a synchronizing request
\* is needed for sequence number s, check_for_raw_error sends exactly one, which
\* is on the transport when the flush before the poll returns, and the assertion
\* after send_sync holds whatever other tasks have dispatched in between; when
\* no synchronizing request is needed, none is sent.
C21_SyncBeforeCheck ==
    /\ [](\A t \in Tasks :
            /\ InCheck(t, "synced") /\ ret[t].tag = "Ok"
                 => /\ ~PrepareCheck(proto, Top(t).seq)
                    /\ Cardinality(SyncsOfCall(t)) = 1
            /\ InCheck(t, "wait")
                 => Cardinality(SyncsOfCall(t)) = IF Top(t).what = "sync" THEN 1 ELSE 0
            /\ result[t].op = "check_for_raw_error" => result[t].tag # "Panic")
    /\ [][\A t \in Tasks :
            /\ CheckPass(t, "start") =>
                 /\ stack'[t][1].what = "sync" <=> PrepareCheck(proto, Top(t).seq)
                 /\ SyncsOfCall(t) = {}
            /\ (CheckPass(t, "flushed") /\ ret[t].tag = "Ok") =>
                 /\ InCheck(t, "wait")'
                 /\ write_buffer'.buffer = << >>
                 /\ Top(t).what = "sync" =>
                      Suffix(wire', TotalLen(SyncRequest)) = Flat(SyncRequest) ]_vars

\* a check has sent its synchronizing request and passed the assertion after
\* another task dispatched requests between its prepare_check and its lock
C21_Witness ==
    \E t \in Tasks :
      /\ InCheck(t, "wait")
      /\ Top(t).what = "sync"
      /\ \E i \in SyncsOfCall(t) :
           /\ i > Top(t).seq + 1
           /\ \E j \in (Outer(t).s0 + 1)..(i - 1) : sent[j].task # t

-----------------------------------------------------------------------------
(* Properties of the locks.                                                 *)

\* the async fns that take the WriteBufferGuard as an argument and give it
\* back in their Ok
GuardFns == {"send_sync", "write_all_vectored", "flush_impl"}

\* the positions at which an async fn resumes after it handed the guard to
\* such a call: it has the guard back if the call returned Ok
GuardPcs(fn) ==
    CASE fn = "send_request" -> {"synced", "written"}
      [] fn = "check_for_raw_error" -> {"synced", "flushed"}
      [] fn \in {"flush", "wait_for_reply", "wait_for_reply_with_fds_impl",
                 "write_all_vectored"} -> {"flushed"}
      [] OTHER -> {}

\* by its position in the code, task t owns a WriteBufferGuard
HoldsGuard(t) ==
    /\ stack[t] # << >>
    /\ IF Top(t).pc \in GuardPcs(Top(t).fn)
       THEN ret[t].tag = "Ok"
       ELSE \/ Top(t).fn \in GuardFns
            \/ Top(t).fn = "send_request" /\ Top(t).pc = "loop"

\* task t runs the block of write_all_vectored that buffers the payload
BufferPass(t) ==
    /\ stack[t] # << >>
    /\ Top(t).fn = "write_all_vectored"
    /\ Top(t).pc \in {"start", "flushed"}
    /\ stack'[t] # stack[t]

\* task t, and no other task, takes a step
Acts(t) == stack'[t] # stack[t] /\ \A u \in Tasks \ {t} : stack'[u] = stack[u]

\* C24: on an established connection every write to the transport, from the
\* buffer or direct, and every sequence number taken for an outgoing request
\* is the step of a task that holds the write-pipeline guard, and at most one
\* task holds the guard at a time: no two tasks write to the transport
\* concurrently.
C24_WritesUnderGuard ==
    /\ [](\A t \in Tasks : HoldsGuard(t) <=> write_buffer.owner = t)
    /\ [](Cardinality({ t \in Tasks : HoldsGuard(t) }) <= 1)
    /\ [][ (wire' # wire \/ proto'.last_sequence_written # proto.last_sequence_written)
           => \E t \in Tasks : HoldsGuard(t) /\ write_buffer.owner = t /\ Acts(t) ]_vars

\* one task is part way through a flush of its request, which it wrote under a
\* sequence number of its own, and another task waits for the guard
C24_Witness ==
    \E t, u \in Tasks :
      /\ HoldsGuard(t)
      /\ Top(t).fn = "flush_impl"
      /\ Top(t).pos \in 1..(BLen(write_buffer.buffer) - 1)
      /\ \E i \in 1..Len(sent) : sent[i].task = t
      /\ u # t
      /\ stack[u] # << >>
      /\ Top(u).pc = "lock"
      /\ Top(u).fn \in {"send_request", "flush", "wait_for_reply_with_fds_impl",
                        "wait_for_reply", "check_for_raw_error"}

\* C25: the write buffer never holds more bytes than its capacity of 16384:
\* write_all_vectored flushes first when the buffered bytes and the payload
\* together exceed the capacity, and appends a payload only if the buffer
\* stays within the capacity.
C25_BufferWithinCapacity ==
    /\ [](BLen(write_buffer.buffer) <= Capacity)
    /\ [][\A t \in Tasks :
            /\ (BufferPass(t) /\ Top(t).pc = "start"
                 /\ BLen(write_buffer.buffer) + TotalLen(Top(t).bufs) > Capacity)
                => /\ write_buffer' = write_buffer
                   /\ stack'[t][1].fn = "flush_impl"
                   /\ stack'[t][2] = [Top(t) EXCEPT !.pc = "flushed"]
            /\ (BufferPass(t) /\ write_buffer'.buffer # write_buffer.buffer)
                => /\ write_buffer'.buffer = BCat(write_buffer.buffer, Flat(Top(t).bufs))
                   /\ BLen(write_buffer.buffer) + TotalLen(Top(t).bufs) <= Capacity
                   /\ Top(t).pc = "flushed" => write_buffer.buffer = << >>
            /\ (BLen(write_buffer'.buffer) > BLen(write_buffer.buffer) /\ Acts(t))
                => BufferPass(t) ]_vars

\* a payload that did not fit beside the buffered bytes was buffered after the
\* flush that made room for it, and fills the buffer to 8 bytes below capacity
C25_Witness ==
    /\ write_buffer.owner = 0
    /\ Len(sent) >= 2
    /\ write_buffer.buffer = sent[Len(sent)].bytes
    /\ BLen(write_buffer.buffer) = Capacity - 8
    /\ wire = SentThrough(Len(sent) - 1)
    /\ BLen(wire) + BLen(write_buffer.buffer) > Capacity

\* the four locks, numbered in the order in which a task may take them: the
\* resource-id allocator, the maximum-request-size state, the extension cache,
\* the write pipeline
LockOwner(k) ==
    CASE k = 1 -> id_allocator.owner
      [] k = 2 -> max_request_bytes.owner
      [] k = 3 -> extensions.owner
      [] OTHER -> write_buffer.owner

Held(t) == { k \in 1..4 : LockOwner(k) = t }

\* the lock task t has asked for and not got yet, 0 if there is none
Requests(t) ==
    IF stack[t] = << >> THEN 0
    ELSE IF Top(t).fn \in ParseFns /\ Top(t).pc = "read" THEN 3
    ELSE IF Top(t).pc # "lock" THEN 0
    ELSE CASE Top(t).fn = "generate_id" -> 1
           [] Top(t).fn = "prefetch_len_impl" -> 2
           [] Top(t).fn \in {"extension_information",
                             "prefetch_extension_information"} -> 3
           [] OTHER -> 4

\* task t cannot go on before task u releases a lock
WaitsFor(t, u) == Requests(t) # 0 /\ LockOwner(Requests(t)) = u

\* C26: a task asks for a lock only while it holds none that comes at or after
\* it in the order allocator, maximum request size, extension cache, write
\* pipeline, so it never asks again for a lock it holds, and there is never a
\* set of tasks each of which waits for a lock that a task of the set holds.
C26_LockOrder ==
    /\ \A t \in Tasks : Requests(t) # 0 => \A k \in Held(t) : k < Requests(t)
    /\ \A c \in (SUBSET Tasks) \ {{}} : \E t \in c : \A u \in c : ~WaitsFor(t, u)

\* generate_id, holding the allocator, waits for the extension cache, which
\* maximum_request_bytes holds together with its own lock while it asks for the
\* write pipeline
C26_Witness ==
    \E t, u \in Tasks :
      /\ Held(t) = {1}
      /\ WaitsFor(t, u)
      /\ Held(u) = {2, 3}
      /\ Requests(u) = 4

-----------------------------------------------------------------------------
(* Properties of the extension cache.                                       *)

ExtRank(e) == IF e.tag = "Unknown" THEN 0 ELSE IF e.tag = "Loading" THEN 1 ELSE 2

\* the presence queries dispatched for a name
Queries(name) ==
    { i \in 1..Len(sent) : sent[i].what = "QueryExtension" /\ sent[i].name = name }

\* extension_information of task t is polled with the cache lock free
InformationPass(t) ==
    /\ stack[t] # << >>
    /\ Top(t).fn = "extension_information"
    /\ Top(t).pc = "lock"
    /\ stack'[t] # stack[t]
    /\ ~(stack'[t] = << >> /\ result'[t].tag = "Cancelled")

\* C14: a cache entry only moves forward along Unknown -> Pending -> Resolved;
\* whatever the interleaving of prefetch_extension_information and
\* extension_information calls, at most one presence query is dispatched per
\* name; once an entry is Resolved, every extension_information call for the
\* name returns the cached value and dispatches nothing.
C14_ExtensionCache ==
    /\ [](\A n \in ExtNames : Cardinality(Queries(n)) <= 1)
    /\ [][\A n \in ExtNames :
            LET e == extensions.cache[n]
                e2 == extensions'.cache[n]
            IN  /\ ExtRank(e2) >= ExtRank(e)
                /\ ExtRank(e2) = ExtRank(e) => e2 = e ]_vars
    /\ [][\A t \in Tasks :
            (InformationPass(t) /\ extensions.cache[Top(t).name].tag = "Loaded") =>
               /\ ret'[t] = Ok(extensions.cache[Top(t).name].val)
               /\ stack'[t] = Tail(stack[t])
               /\ sent' = sent /\ proto' = proto ]_vars

\* two extension_information calls for one name have returned the same value
\* after a single query, the later one from the cache
C14_Witness ==
    /\ env.workload = "ext"
    /\ \E n \in ExtNames :
         /\ extensions.cache[n].tag = "Loaded"
         /\ Cardinality(Queries(n)) = 1
         /\ \A t \in Tasks :
              /\ stack[t] = << >>
              /\ result[t].op = "extension_information"
              /\ result[t].name = n
              /\ result[t].tag = "Ok"
              /\ result[t].val = extensions.cache[n].val
         /\ \E t \in Tasks : result[t].s0 = Len(sent) /\ server.processed = Len(sent)

-----------------------------------------------------------------------------
(* Properties of the maximum-request-size negotiation.                      *)

MrlRank(m) == IF m.tag = "Unknown" THEN 0 ELSE IF m.tag = "Requested" THEN 1 ELSE 2

\* the sequence numbers under which a big-request-enable request was dispatched
Enables == { i \in 1..Len(sent) : sent[i].what = "Enable" }

\* the innermost frame of t, a call of fn, returns in this step
Returns(t, fn) ==
    /\ stack[t] # << >>
    /\ Top(t).fn = fn
    /\ stack'[t] = Tail(stack[t])

\* C4: the maximum-request-size state only moves forward along
\* Unknown -> Requested -> Known: once Known(n) it stays Known(n), every later
\* maximum_request_bytes call returns that n, and no later call dispatches
\* another big-request-enable request.
C4_ForwardOnly ==
    [][ /\ MrlRank(max_request_bytes') >= MrlRank(max_request_bytes)
        /\ max_request_bytes.tag = "Known" =>
             /\ max_request_bytes'.tag = "Known"
             /\ max_request_bytes'.val = max_request_bytes.val
             /\ Enables' = Enables
             /\ \A t \in Tasks : Returns(t, "maximum_request_bytes") =>
                  ret'[t] = Ok(max_request_bytes.val) ]_vars

\* two callers have their byte count, the second of them from the Known state
C4_Witness ==
    /\ max_request_bytes.tag = "Known"
    /\ Cardinality(Enables) = 1
    /\ \A t \in Tasks : /\ stack[t] = << >>
                        /\ result[t].op = "maximum_request_bytes"
                        /\ result[t].tag = "Ok"
                        /\ result[t].val = max_request_bytes.val

\* task t awaits the reply of the enable request under sequence number seq
AwaitsEnable(t, seq) ==
    \E k \in 2..Len(stack[t]) :
      /\ stack[t][k].fn = "maximum_request_bytes"
      /\ stack[t][k].pc = "replied"
      /\ stack[t][k - 1].fn = "wait_for_reply_with_fds_impl"
      /\ stack[t][k - 1].seq = seq

\* task t is inside the cookie.reply().await of maximum_request_bytes
AwaitsSomeEnable(t) ==
    \E k \in 2..Len(stack[t]) :
      stack[t][k].fn = "maximum_request_bytes" /\ stack[t][k].pc = "replied"

\* C5: however the callers of prefetch_maximum_request_bytes and
\* maximum_request_bytes interleave, at most one big-request-enable request is
\* ever dispatched; a caller that finds the state Requested awaits the reply of
\* that one request, and all callers obtain the same byte count.
C5_SingleEnable ==
    /\ Cardinality(Enables) <= 1
    /\ \A t \in Tasks : AwaitsSomeEnable(t) => \E seq \in Enables : AwaitsEnable(t, seq)
    /\ \A t, u \in Tasks :
         (/\ result[t].op = "maximum_request_bytes" /\ result[t].tag = "Ok"
          /\ result[u].op = "maximum_request_bytes" /\ result[u].tag = "Ok")
         => result[t].val = result[u].val

\* a caller awaits the reply of the enable request another caller dispatched
C5_Witness ==
    \E t \in Tasks : \E seq \in Enables :
      /\ AwaitsEnable(t, seq)
      /\ sent[seq].task # t
      /\ max_request_bytes.tag = "Requested"

\* C22: whenever a maximum_request_bytes call completes with a value v, the
\* maximum-request-size state is Known(v): four times the length of the enable
\* reply if that reply arrived, and four times the maximum request length of
\* the Setup if the big-request extension is absent.  The state is not left
\* Requested by a call that has resolved it.
C22_KnownAfterResolution ==
    [][\A t \in Tasks :
         (Returns(t, "maximum_request_bytes") /\ ret'[t].tag = "Ok") =>
            /\ max_request_bytes'.tag = "Known"
            /\ max_request_bytes'.val = ret'[t].val
            /\ ret'[t].val \in { WordsToBytes(m) : m \in EnableMaxLens }
                                \cup { WordsToBytes(setup.maximum_request_length) } ]_vars

\* the state that makes maximum_request_bytes fall back on the Setup
RequestedNone == max_request_bytes.tag = "Requested" /\ max_request_bytes.val = 0

\* C23: the maximum-request-size state is Requested(None), and the fallback of
\* the Setup is returned, only when the big-request extension is absent: with
\* the extension present, an enable request that could not be dispatched (an
\* I/O error, a corrupted write pipeline) does not leave Requested(None).
C23_NoneOnlyWhenAbsent ==
    /\ [](RequestedNone => server.ext["BIG-REQUESTS"] # "present")
    /\ [][\A t \in Tasks :
            (/\ Returns(t, "maximum_request_bytes")
             /\ ret'[t] = Ok(WordsToBytes(setup.maximum_request_length)))
            => server.ext["BIG-REQUESTS"] # "present" ]_vars

\* task t, inside the send_request a caller made, has the maximum and goes on
OversizeStep(t) ==
    /\ stack[t] # << >>
    /\ Top(t).fn = "send_request"
    /\ Top(t).pc = "computed"
    /\ stack'[t] # stack[t]
    /\ TotalLen(Top(t).bufs) > ret[t].val

\* C7: a request that needs big-request encoding and is longer than the
\* negotiated maximum makes send_request fail with MaximumRequestLengthExceeded;
\* no sequence number was consumed for it, none of its bytes were buffered or
\* written, and the write pipeline is not left corrupted.
C7_OversizeRejected ==
    [][ \A t \in Tasks : OversizeStep(t) =>
          /\ stack'[t] = Tail(stack[t])
          /\ ret'[t] = Err("MaximumRequestLengthExceeded")
          /\ UNCHANGED << proto, sent, wire, write_buffer >>
          /\ write_buffer.owner # t
          /\ Top(t).seq = 0
          /\ \A i \in (Top(t).s0 + 1)..Len(sent) :
               sent[i].task = t => sent[i].what # "user" ]_vars

\* a 268000-byte request was refused under a negotiated maximum of 264000 bytes
C7_Witness ==
    \E t \in Tasks :
      /\ result[t].op = "send_request"
      /\ result[t].err = "MaximumRequestLengthExceeded"
      /\ result[t].bytes = 268000
      /\ max_request_bytes.tag = "Known"
      /\ max_request_bytes.val = 264000
      /\ ~write_buffer.corrupted

-----------------------------------------------------------------------------
(* Properties of the resource-id allocation.                                *)

\* the identifiers of the range that start and count name, for an increment
RangeIds(range, increment) ==
    { range[1] + k * increment : k \in 0..(range[2] - 1) }

\* C8 as the specification states it: no identifier is ever returned twice,
\* and after a range update every identifier comes from the new range.
C8_NeverTwice ==
    /\ \A i, j \in 1..Len(ghost.ids) : i # j => ghost.ids[i].id # ghost.ids[j].id
    /\ \A i \in 1..Len(ghost.ids) :
         ghost.ids[i].epoch > 0 =>
           ghost.ids[i].id \in RangeIds(ghost.ids[i].range, id_allocator.increment)

\* C8: between two range updates no identifier is returned twice, however the
\* generate_id callers interleave, and after a range update every identifier
\* comes from the newly supplied range only; an identifier is returned again
\* only when a supplied range holds it again.
C8_UniqueWithinRange ==
    /\ \A i, j \in 1..Len(ghost.ids) :
         (i # j /\ ghost.ids[i].epoch = ghost.ids[j].epoch)
         => ghost.ids[i].id # ghost.ids[j].id
    /\ \A i, j \in 1..Len(ghost.ids) :
         (i < j /\ ghost.ids[i].id = ghost.ids[j].id)
         => /\ ghost.ids[j].epoch > ghost.ids[i].epoch
            /\ ghost.ids[i].id \in RangeIds(ghost.ids[j].range, id_allocator.increment)
    /\ \A i \in 1..Len(ghost.ids) :
         ghost.ids[i].epoch > 0 =>
           ghost.ids[i].id \in RangeIds(ghost.ids[i].range, id_allocator.increment)

\* both identifiers of the first range and both of the supplied one are out
C8_Witness ==
    /\ Len(ghost.ids) = 4
    /\ ghost.ids[2].epoch = 0
    /\ ghost.ids[3].epoch = 1
    /\ ghost.ids[4].epoch = 1
    /\ ghost.ids[4].range = <<2048, 2>>

\* the get-id-range requests the generate_id call of task t has dispatched
RangeRequests(t) ==
    { i \in (stack[t][Len(stack[t])].s0 + 1)..Len(sent) :
        sent[i].task = t /\ sent[i].what = "GetXIDRange" }

\* task t takes a step of generate_id itself
GenerateIdStep(t, pc) ==
    /\ stack[t] # << >>
    /\ Top(t).fn = "generate_id"
    /\ Top(t).pc = pc
    /\ stack'[t] # stack[t]
    /\ ~(stack'[t] = << >> /\ result'[t].tag = "Cancelled")

\* C9: generate_id returns an identifier without any round trip while the
\* range has one.  On exhaustion, with the dynamic-range extension absent it
\* returns IdsExhausted and dispatches no get-id-range request; with the
\* extension present it dispatches exactly one, feeds the reply into the
\* allocator, retries once, and returns IdsExhausted when that finds nothing.
C9_Exhaustion ==
    /\ [](\A t \in Tasks :
            (stack[t] # << >> /\ stack[t][Len(stack[t])].fn = "generate_id")
            => Cardinality(RangeRequests(t)) <= 1)
    /\ [][ \A t \in Tasks :
             /\ (GenerateIdStep(t, "lock") /\ IdAvailable(id_allocator)) =>
                  /\ ret'[t] = Ok(id_allocator.next_id)
                  /\ stack'[t] = << >>
                  /\ UNCHANGED << sent, proto, wire >>
             /\ (GenerateIdStep(t, "ext") /\ ret[t] = Ok(0)) =>
                  /\ ret'[t] = Err("IdsExhausted")
                  /\ stack'[t] = << >>
                  /\ RangeRequests(t) = {}
                  /\ UNCHANGED << sent, proto, wire >>
             /\ (GenerateIdStep(t, "range_reply") /\ CookieReply(ret[t]).tag = "Ok") =>
                  LET r == CookieReply(ret[t])
                  IN  /\ Cardinality(RangeRequests(t)) = 1
                      /\ stack'[t] = << >>
                      /\ UNCHANGED << sent, proto, wire >>
                      /\ IF XidRangeUsable(r.val, r.val2)
                         THEN /\ ret'[t] = Ok(r.val)
                              /\ id_allocator'.next_id = r.val + id_allocator.increment
                         ELSE /\ ret'[t] = Err("IdsExhausted")
                              /\ id_allocator'.next_id = id_allocator.next_id ]_vars

\* an exhausted allocator was refilled by one get-id-range request, and the
\* call returned the first identifier of the supplied range
C9_Witness ==
    \E t \in Tasks :
      /\ stack[t] = << >>
      /\ result[t].op = "generate_id"
      /\ result[t].tag = "Ok"
      /\ result[t].val = 2048
      /\ server.ext["XC-MISC"] = "present"
      /\ Cardinality({ i \in (result[t].s0 + 1)..Len(sent) :
                         sent[i].task = t /\ sent[i].what = "GetXIDRange" }) = 1

-----------------------------------------------------------------------------
(* compute_length_field as send_request runs it on a fresh connection: one  *)
(* caller sends one request, drawn from requests on both sides of the       *)
(* 16-bit limit and of the maximums the server grants.                      *)

LenWords == {3000, 65535, 65536, 66000, 66001, 70000}
LenHeads == { <<72, 0>>, <<130, 9>> }
LenSplits == {0, 2, 4, 8}       \* the length of the first slice; 0: a single slice
LenFields == { <<0, 0>>, <<7, 1>> }  \* what a request past 65535 words holds as length
LenPads == {0, 1}               \* bytes past the last whole word

\* a request of w words: the length field holds w when it fits, else big
LenRequest(head, w, split, big, pad) ==
    LET field == IF w <= U16Max THEN U16Bytes(w) ELSE big
        all == BCat(BLit(head \o field), Run(200, 4 * w - 4 + pad))
    IN  IF split = 0 THEN << all >> ELSE << BTake(all, split), BDrop(all, split) >>

\* the transport accepts every write whole in these runs
InitLen ==
    /\ Fresh
    /\ env = [workload |-> "len", calls |-> 0, faults |-> MaxFaults]
    /\ \E s \in Setups("len") : Constructed(s)
    /\ handshake = Established

StartLenRequest(t) ==
    /\ Idle(t)
    /\ env.workload = "len"
    /\ \E head \in LenHeads, w \in LenWords, split \in LenSplits, big \in LenFields,
          pad \in LenPads :
         Begin(t, SendRequestFrame(LenRequest(head, w, split, big, pad), "NoReply",
                                   "user", "len"))

LenStep(t) ==
    \/ StartLenRequest(t)
    \/ SendRequestCompute(t) \/ SendRequestComputed(t) \/ SendRequestLock(t)
    \/ SendRequestLoop(t) \/ SendRequestWritten(t)
    \/ WriteAllVectoredStart(t) \/ WriteAllVectoredFlushed(t) \/ WriteAllVectoredDirect(t)
    \/ FlushImplStart(t) \/ FlushImplWrite(t) \/ FlushImplDone(t)
    \/ WaitReplyLock(t) \/ WaitReplyFlushed(t) \/ WaitReplyPoll(t)
    \/ ExtInfoLock(t) \/ ExtInfoQueried(t) \/ ExtInfoReplied(t)
    \/ BigreqEnableStart(t) \/ BigreqEnableInfo(t)
    \/ PrefetchLenLock(t) \/ PrefetchLenEnabled(t)
    \/ MaximumRequestBytesStart(t) \/ MaximumRequestBytesPrefetched(t)
    \/ MaximumRequestBytesReplied(t)

NextLen == ServerProcess \/ \E t \in Tasks : LenStep(t)

SpecLen == InitLen /\ [][NextLen]_vars

\* task t resumes compute_length_field with the maximum the connection returned
ComputePass(t) ==
    /\ stack[t] # << >>
    /\ Top(t).fn = "send_request"
    /\ Top(t).pc = "computed"
    /\ stack'[t] # stack[t]

\* C6: a request of more than 65535 words that is no longer than the maximum
\* is returned as: its opcode and reserved byte, a 16-bit length field of zero,
\* a 32-bit extended length of word count + 1, then every original byte after
\* the first four, unchanged and in order (the header slice, the rest of the
\* first slice, the later slices); the output is 4 bytes longer, and taking the
\* extended length out and putting the length field back gives the input.
C6_BigRequestEncoding ==
    [][ \A t \in Tasks :
          (/\ ComputePass(t)
           /\ TotalLen(Top(t).bufs) \div 4 > U16Max
           /\ TotalLen(Top(t).bufs) <= ret[t].val)
          => /\ stack'[t] # << >>
             /\ stack'[t][1].fn = "send_request"
             /\ LET bufs == Top(t).bufs
                    new == stack'[t][1].bufs
                    in == Flat(bufs)
                    out == Flat(new)
                    words == BLen(in) \div 4
                IN  /\ BLen(out) = BLen(in) + 4
                    /\ BAt(out, 0) = BAt(in, 0)
                    /\ BAt(out, 1) = BAt(in, 1)
                    /\ U16From(BAt(out, 2), BAt(out, 3)) = 0
                    /\ U32From(<< BAt(out, 4), BAt(out, 5), BAt(out, 6), BAt(out, 7) >>)
                         = words + 1
                    /\ BDrop(out, 8) = BDrop(in, 4)
                    /\ BCat(BTake(out, 2), BCat(BTake(BDrop(in, 2), 2), BDrop(out, 8))) = in
                    /\ Len(new) = Len(bufs) + 1
                    /\ BLen(new[1]) = 8
                    /\ new[2] = BDrop(bufs[1], 4)
                    /\ \A k \in 2..Len(bufs) : new[k + 1] = bufs[k] ]_vars

=============================================================================
